---- MODULE Spec2Model ----
(***************************************************************************)
(* The content analysis -> layout / component decision engine of the       *)
(* second-brain research dashboard agent.                                  *)
(*                                                                         *)
(* Layout decision engine (src/agent/layout_selector.py): one call of      *)
(* select_layout(content_analysis, agent) is a process that runs from its  *)
(* entry to its return, to an exception leaving it, or to its only         *)
(* suspension point, the awaited agent.run of _select_layout_with_llm.     *)
(*                                                                         *)
(* Numbers of type float are kept in hundredths (0.85 is Num(85)); the     *)
(* not-a-number value float('nan') is kept apart because every ordered     *)
(* comparison with it is false.  Text is kept as sequences of lines, a     *)
(* line being a sequence of whitespace separated words; str.strip and      *)
(* the joining of words are then the identity on the words of a piece.     *)
(*                                                                         *)
(* The further parts, each with its own specification: the document        *)
(* classifier (src/agent/content_analyzer.py, ClassifySpec), identifiers   *)
(* and construction of components (src/agent/a2ui_generator.py, IdSpec),   *)
(* interleaved generation sessions (src/agent/llm_orchestrator.py,         *)
(* SessionSpec), the variety check (src/demo_variety_enforcement.py,       *)
(* VarietySpec), the markdown parser (parse_markdown, ParseSpec), the      *)
(* extraction of JSON from an assist response (ExtractSpec), one           *)
(* orchestrated run with its assist calls and intent adapters              *)
(* (PipelineSpec) and batch generation (BatchSpec).  A specification       *)
(* leaves the variables of the other parts at rest.                        *)
(***************************************************************************)
EXTENDS Integers, Sequences, FiniteSets, TLC

VARIABLES
    analysis,        \* the ContentAnalysis handed to select_layout
    agent,           \* the agent argument: "None" or "agent"
    pc,              \* "call", "await_agent_run", "returned", "raised"
    rule_decision,   \* select_layout's local rule_decision
    type_decision,   \* select_layout's local type_decision
    result,          \* the LayoutDecision returned
    raised,          \* the exception that left select_layout
    agent_runs,      \* number of agent.run invocations made
    assist_outcome,  \* how the assist tier went
    response,        \* result.data of the awaited agent.run
    markdown,        \* the text handed to analyze_content
    parsed_markdown, \* parse_markdown(markdown), as far as the classifier reads it
    classifier,      \* the agent argument of analyze_content
    analyze_pc,      \* position of the analyze_content call
    document_type,   \* analyze_content's local document_type
    classify_outcome,\* how the assisted classification went
    classifier_response, \* result.data of the agent.run awaited by analyze_content
    _id_counter,     \* the module global of a2ui_generator
    issued,          \* the generate_id calls since the last reset
    component,       \* what the last generate_component call gave
    session,         \* the orchestrate_dashboard_with_llm runs of the process
    component_types, \* the types of the sequence handed to validate_variety
    report,          \* what validate_variety returned
    parse_content,   \* the text handed to parse_markdown
    parse_result,    \* what parse_markdown returned (title, all_links)
    llm_response,    \* the text handed to extract_json_from_response
    extracted,       \* what extract_json_from_response returned
    pipeline,        \* one orchestrate_dashboard_with_llm run and its assist calls
    batch            \* the last generate_components_batch call

layoutVars == <<analysis, agent, pc, rule_decision, type_decision, result,
                raised, agent_runs, assist_outcome, response>>
classifyVars == <<markdown, parsed_markdown, classifier, analyze_pc, document_type,
                  classify_outcome, classifier_response>>
idVars == <<_id_counter, issued, component>>
sessionVars == <<session>>
varietyVars == <<component_types, report>>
parseVars == <<parse_content, parse_result>>
extractVars == <<llm_response, extracted>>
pipelineVars == <<pipeline>>
batchVars == <<batch>>

vars == <<layoutVars, classifyVars, idVars, sessionVars, varietyVars, parseVars, extractVars, pipelineVars, batchVars>>

\* the parts of the program a specification leaves at rest
LayoutIdle ==
    /\ analysis = [none |-> TRUE]
    /\ agent = "None"
    /\ pc = "idle"
    /\ rule_decision = [none |-> TRUE]
    /\ type_decision = [none |-> TRUE]
    /\ result = [none |-> TRUE]
    /\ raised = "none"
    /\ agent_runs = 0
    /\ assist_outcome = "not_invoked"
    /\ response = [none |-> TRUE]

ClassifyIdle ==
    /\ markdown = [none |-> TRUE]
    /\ parsed_markdown = [none |-> TRUE]
    /\ classifier = "None"
    /\ analyze_pc = "idle"
    /\ document_type = "article"
    /\ classify_outcome = "not_invoked"
    /\ classifier_response = [none |-> TRUE]

IdIdle ==
    /\ _id_counter = 0
    /\ issued = <<>>
    /\ component = [none |-> TRUE]

SessionIdle == session = <<>>

VarietyIdle ==
    /\ component_types = <<>>
    /\ report = [none |-> TRUE]

ParseIdle ==
    /\ parse_content = [none |-> TRUE]
    /\ parse_result = [none |-> TRUE]

ExtractIdle ==
    /\ llm_response = <<>>
    /\ extracted = [none |-> TRUE]

PipelineIdle ==
    pipeline = [pc |-> "idle"]

BatchIdle ==
    batch = [none |-> TRUE]

----------------------------------------------------------------------------
(* Bounds of the model. *)

\* counts of code blocks, tables, links and sections go up to this many
\* above the threshold of their rule
MaxOver == 1
\* lines of an assist response
MaxLines == 3

----------------------------------------------------------------------------
(* Python values. *)

None == [none |-> TRUE]

Num(h) == [isnan |-> FALSE, hundredths |-> h]
NaN == [isnan |-> TRUE, hundredths |-> 0]

FloatLT(a, b) == ~a.isnan /\ ~b.isnan /\ a.hundredths < b.hundredths
FloatGT(a, b) == ~a.isnan /\ ~b.isnan /\ a.hundredths > b.hundredths
FloatGE(a, b) == ~a.isnan /\ ~b.isnan /\ a.hundredths >= b.hundredths

\* the classes that `except Exception` catches; asyncio.CancelledError
\* derives from BaseException and is not among them
ExceptionSubclasses ==
    {"ImportError", "TypeError", "ValidationError", "RuntimeError", "TimeoutError"}

Raise(exc) == [raises |-> exc]
IsRaise(v) == "raises" \in DOMAIN v

----------------------------------------------------------------------------
(* LayoutDecision and the type-mapping table. *)

ConfidenceGE == Num(0)
ConfidenceLE == Num(100)

\* LayoutDecision(...): the pydantic model; Field(ge=0.0, le=1.0) rejects a
\* confidence that compares below ge or above le
LayoutDecision(layout_type, confidence, reasoning, alternative_layouts, component_suggestions) ==
    IF FloatLT(confidence, ConfidenceGE) \/ FloatGT(confidence, ConfidenceLE)
    THEN Raise("ValidationError")
    ELSE [layout_type |-> layout_type,
          confidence |-> confidence,
          reasoning |-> reasoning,
          alternative_layouts |-> alternative_layouts,
          component_suggestions |-> component_suggestions]

\* the dict LAYOUT_MAPPINGS in its insertion (iteration) order
LAYOUT_MAPPINGS == <<
    [doc_type |-> "tutorial", layout |-> "instructional_layout",
     components |-> <<"CodeBlock", "StepList", "ProgressTracker", "Highlight", "CollapsibleSection">>],
    [doc_type |-> "research", layout |-> "data_layout",
     components |-> <<"DataTable", "StatCard", "ComparisonChart", "Citation", "Graph">>],
    [doc_type |-> "article", layout |-> "news_layout",
     components |-> <<"Hero", "ImageGallery", "Quote", "RelatedLinks", "ShareButtons">>],
    [doc_type |-> "guide", layout |-> "list_layout",
     components |-> <<"OrderedList", "Checklist", "Accordion", "SideNav", "CalloutBox">>],
    [doc_type |-> "notes", layout |-> "summary_layout",
     components |-> <<"KeyPoints", "TagCloud", "QuickReference", "Highlight", "MiniCard">>],
    [doc_type |-> "technical_doc", layout |-> "reference_layout",
     components |-> <<"CodeBlock", "ApiTable", "TabbedContent", "SideNav", "SearchBar">>],
    [doc_type |-> "overview", layout |-> "media_layout",
     components |-> <<"Hero", "MediaEmbed", "Highlight", "Card", "Timeline">>] >>

\* LAYOUT_MAPPINGS.get(doc_type)
MappingGet(doc_type) ==
    IF \E i \in DOMAIN LAYOUT_MAPPINGS : LAYOUT_MAPPINGS[i].doc_type = doc_type
    THEN LAYOUT_MAPPINGS[CHOOSE i \in DOMAIN LAYOUT_MAPPINGS :
                            LAYOUT_MAPPINGS[i].doc_type = doc_type]
    ELSE None

\* seq[:n]
Take(seq, n) == SubSeq(seq, 1, IF Len(seq) < n THEN Len(seq) ELSE n)

----------------------------------------------------------------------------
(* _apply_rule_based_selection *)

CodeBlockThreshold == 5
TableThreshold == 2
MediaThreshold == 3
SectionThreshold == 10

\* the four candidates, lines 102-108, 112-118, 122-128, 132-138
InstructionalCandidate(code_block_count) ==
    LayoutDecision("instructional_layout", Num(90),
        "High code block count (" \o ToString(code_block_count)
            \o ") indicates tutorial/instructional content",
        <<"reference_layout", "list_layout">>,
        <<"CodeBlock", "StepList", "ProgressTracker", "Highlight", "CollapsibleSection">>)

DataCandidate(table_count) ==
    LayoutDecision("data_layout", Num(85),
        "High table count (" \o ToString(table_count)
            \o ") indicates data/research content",
        <<"reference_layout", "summary_layout">>,
        <<"DataTable", "StatCard", "ComparisonChart", "Citation", "Graph">>)

MediaCandidate(media_count) ==
    LayoutDecision("media_layout", Num(88),
        "High media link count (" \o ToString(media_count)
            \o ") indicates visual/overview content",
        <<"news_layout", "summary_layout">>,
        <<"Hero", "MediaEmbed", "Highlight", "Card", "Timeline">>)

ReferenceCandidate(section_count) ==
    LayoutDecision("reference_layout", Num(82),
        "High section count (" \o ToString(section_count)
            \o ") indicates technical documentation",
        <<"list_layout", "instructional_layout">>,
        <<"CodeBlock", "ApiTable", "TabbedContent", "SideNav", "SearchBar">>)

\* mutant: the table rule is tried before the code block rule
ApplyRuleBasedSelection_TablesFirst(content_analysis) ==
    LET code_block_count == content_analysis.code_block_count
        table_count == content_analysis.table_count
        media_count == content_analysis.youtube_link_count
                       + content_analysis.github_link_count
        section_count == content_analysis.section_count
    IN  IF table_count > TableThreshold THEN DataCandidate(table_count)
        ELSE IF code_block_count > CodeBlockThreshold
            THEN InstructionalCandidate(code_block_count)
        ELSE IF media_count > MediaThreshold THEN MediaCandidate(media_count)
        ELSE IF section_count > SectionThreshold THEN ReferenceCandidate(section_count)
        ELSE None

_apply_rule_based_selection(content_analysis) ==
    LET code_block_count == content_analysis.code_block_count
        table_count == content_analysis.table_count
        media_count == content_analysis.youtube_link_count
                       + content_analysis.github_link_count
        section_count == content_analysis.section_count
    IN  IF code_block_count > CodeBlockThreshold
            THEN InstructionalCandidate(code_block_count)
        ELSE IF table_count > TableThreshold THEN DataCandidate(table_count)
        ELSE IF media_count > MediaThreshold THEN MediaCandidate(media_count)
        ELSE IF section_count > SectionThreshold THEN ReferenceCandidate(section_count)
        ELSE None

----------------------------------------------------------------------------
(* _get_layout_from_document_type *)

\* the decision for a document type the table does not hold, lines 177-183
SummaryFallback(doc_type) ==
    LayoutDecision("summary_layout", Num(60),
        "Unknown document type '" \o doc_type \o "', using default summary layout",
        <<"news_layout", "list_layout", "media_layout">>,
        <<"KeyPoints", "TagCloud", "QuickReference", "Highlight", "MiniCard">>)

\* mutant: the alternatives are not filtered by dt != doc_type
GetLayoutFromDocumentType_Unfiltered(content_analysis) ==
    LET doc_type == content_analysis.document_type
        mapping == MappingGet(doc_type)
        alternatives ==
            Take([i \in DOMAIN LAYOUT_MAPPINGS |-> LAYOUT_MAPPINGS[i].layout], 3)
    IN  IF mapping # None THEN
            LayoutDecision(mapping.layout, Num(75),
                "Document classified as '" \o doc_type \o "', mapped to " \o mapping.layout,
                alternatives,
                mapping.components)
        ELSE SummaryFallback(doc_type)

\* mutant: an unknown document type is given the confidence of a mapped one
GetLayoutFromDocumentType_FlatConfidence(content_analysis) ==
    LET doc_type == content_analysis.document_type
        mapping == MappingGet(doc_type)
        others == SelectSeq(LAYOUT_MAPPINGS, LAMBDA m : m.doc_type # doc_type)
        alternatives == Take([i \in DOMAIN others |-> others[i].layout], 3)
    IN  IF mapping # None THEN
            LayoutDecision(mapping.layout, Num(75),
                "Document classified as '" \o doc_type \o "', mapped to " \o mapping.layout,
                alternatives,
                mapping.components)
        ELSE [SummaryFallback(doc_type) EXCEPT !.confidence = Num(75)]

_get_layout_from_document_type(content_analysis) ==
    LET doc_type == content_analysis.document_type
        mapping == MappingGet(doc_type)
        others == SelectSeq(LAYOUT_MAPPINGS, LAMBDA m : m.doc_type # doc_type)
        alternatives == Take([i \in DOMAIN others |-> others[i].layout], 3)
    IN  IF mapping # None THEN
            LayoutDecision(mapping.layout, Num(75),
                "Document classified as '" \o doc_type \o "', mapped to " \o mapping.layout,
                alternatives,
                mapping.components)
        ELSE SummaryFallback(doc_type)

----------------------------------------------------------------------------
(* The text of an assist response and the str operations applied to it. *)

Words(line) == {line[i] : i \in DOMAIN line}

\* marker in data: a substring test on a str, a membership test on a list,
\* a TypeError on None (the caller tests the kind first)
In(marker, data) ==
    /\ data.kind = "str"
    /\ \E i \in DOMAIN data.lines : marker \in Words(data.lines[i])

\* [line for line in response_text.split('\n') if marker in line][0]
FirstLineWith(marker, text) ==
    text[CHOOSE i \in DOMAIN text :
            /\ marker \in Words(text[i])
            /\ \A j \in 1..(i - 1) : marker \notin Words(text[j])]

\* index of the first occurrence of word in line, Len(line) + 1 if none
Find(word, line) ==
    IF word \in Words(line)
    THEN CHOOSE i \in DOMAIN line :
            line[i] = word /\ \A j \in 1..(i - 1) : line[j] # word
    ELSE Len(line) + 1

\* line.split(marker)[1].strip(), for a line that holds marker
AfterMarker(marker, line) ==
    LET rest == SubSeq(line, Find(marker, line) + 1, Len(line))
    IN  SubSeq(rest, 1, Find(marker, rest) - 1)

\* the str made of the words of a piece
RECURSIVE Join(_)
Join(words) ==
    IF words = <<>> THEN ""
    ELSE IF Len(words) = 1 THEN words[1]
    ELSE words[1] \o " " \o Join(Tail(words))

\* alt_text.split(','), each piece still a sequence of words
RECURSIVE SplitComma(_)
SplitComma(words) ==
    IF "," \notin Words(words) THEN <<words>>
    ELSE <<SubSeq(words, 1, Find(",", words) - 1)>>
         \o SplitComma(SubSeq(words, Find(",", words) + 1, Len(words)))

\* float(s) of a stripped piece: the literals of the model, ValueError otherwise
float(words) ==
    IF Len(words) # 1 THEN Raise("ValueError")
    ELSE CASE words[1] = "0.9" -> Num(90)
           [] words[1] = "1.5" -> Num(150)
           [] words[1] = "-0.2" -> Num(-20)
           [] words[1] = "nan" -> NaN
           [] OTHER -> Raise("ValueError")

----------------------------------------------------------------------------
(* _select_layout_with_llm, from the awaited agent.run on. *)

\* lines 236-281: result.data parsed into a LayoutDecision
ParseResponse(data) ==
    IF data.kind = "None" THEN Raise("TypeError")
    ELSE
    LET text == data.lines
        layout_type ==
            IF In("LAYOUT:", data)
            THEN Join(AfterMarker("LAYOUT:", FirstLineWith("LAYOUT:", text)))
            ELSE "summary_layout"
        parsed == float(AfterMarker("CONFIDENCE:", FirstLineWith("CONFIDENCE:", text)))
        confidence ==
            IF In("CONFIDENCE:", data)
            THEN (IF IsRaise(parsed) THEN Num(70) ELSE parsed)
            ELSE Num(70)
        reasoning ==
            IF In("REASONING:", data)
            THEN Join(AfterMarker("REASONING:", FirstLineWith("REASONING:", text)))
            ELSE "LLM-based selection"
        pieces == SplitComma(AfterMarker("ALTERNATIVES:",
                                         FirstLineWith("ALTERNATIVES:", text)))
        alternatives ==
            IF In("ALTERNATIVES:", data)
            THEN [i \in DOMAIN pieces |-> Join(pieces[i])]
            ELSE <<>>
        matching == SelectSeq(LAYOUT_MAPPINGS, LAMBDA m : m.layout = layout_type)
        components == IF matching # <<>> THEN matching[1].components ELSE <<>>
    IN  LayoutDecision(layout_type, confidence, "LLM analysis: " \o reasoning,
                       Take(alternatives, 3),
                       IF components # <<>> THEN components
                       ELSE <<"Card", "Text", "Highlight">>)

\* lines 232-286: the try block resumed with what the await produced (the
\* data of a result, or an exception thrown at the await) and its handler
_select_layout_with_llm(content_analysis, awaited) ==
    LET attempt == IF IsRaise(awaited) THEN awaited ELSE ParseResponse(awaited)
    IN  IF IsRaise(attempt) /\ attempt.raises \in ExceptionSubclasses
        THEN _get_layout_from_document_type(content_analysis)
        ELSE attempt

----------------------------------------------------------------------------
(* select_layout *)

\* mutant: the assist is consulted before the rule-based candidate is looked at
SelectLayoutStep_AssistFirst(rule, type, ag) ==
    IF ag # "None" /\ FloatLT(type.confidence, Num(75)) THEN "llm"
    ELSE IF rule # None /\ FloatGE(rule.confidence, Num(85)) THEN "return_rule_high"
    ELSE IF rule # None /\ FloatGE(rule.confidence, Num(80)) THEN "return_rule"
    ELSE IF rule # None /\ FloatGT(rule.confidence, type.confidence) THEN "return_rule_best"
    ELSE "return_type"

\* mutant: step 3 (a rule-based candidate of confidence >= 0.8 wins) is left out
SelectLayoutStep_NoStep3(rule, type, ag) ==
    IF rule # None /\ FloatGE(rule.confidence, Num(85)) THEN "return_rule_high"
    ELSE IF ag # "None" /\ FloatLT(type.confidence, Num(75)) THEN "llm"
    ELSE IF rule # None /\ FloatGT(rule.confidence, type.confidence) THEN "return_rule_best"
    ELSE "return_type"

\* mutant: the assist is consulted whatever the confidence of the type mapping
SelectLayoutStep_AssistAtAnyConfidence(rule, type, ag) ==
    IF rule # None /\ FloatGE(rule.confidence, Num(85)) THEN "return_rule_high"
    ELSE IF rule # None /\ FloatGE(rule.confidence, Num(80)) THEN "return_rule"
    ELSE IF ag # "None" THEN "llm"
    ELSE IF rule # None /\ FloatGT(rule.confidence, type.confidence) THEN "return_rule_best"
    ELSE "return_type"

\* which statement of select_layout ends the synchronous part of the call
select_layout_step(rule, type, ag) ==
    IF rule # None /\ FloatGE(rule.confidence, Num(85)) THEN "return_rule_high"
    ELSE IF rule # None /\ FloatGE(rule.confidence, Num(80)) THEN "return_rule"
    ELSE IF ag # "None" /\ FloatLT(type.confidence, Num(75)) THEN "llm"
    ELSE IF rule # None /\ FloatGT(rule.confidence, type.confidence) THEN "return_rule_best"
    ELSE "return_type"

----------------------------------------------------------------------------
(* Inputs. *)

DocumentTypes ==
    {"tutorial", "research", "article", "guide", "notes", "technical_doc",
     "overview", "unknown_type"}

Counts(threshold) == {0} \cup (threshold .. (threshold + MaxOver))

ResponseLines ==
    { <<"LAYOUT:", "data_layout">>,
      <<"LAYOUT:", "pizza">>,
      <<"LAYOUT:", "news_layout", "LAYOUT:", "pizza">>,
      <<"CONFIDENCE:", "0.9">>,
      <<"CONFIDENCE:", "1.5">>,
      <<"CONFIDENCE:", "-0.2">>,
      <<"CONFIDENCE:", "high">>,
      <<"CONFIDENCE:", "nan">>,
      <<"ALTERNATIVES:", "data_layout", ",", "news_layout">>,
      <<"ALTERNATIVES:", "news_layout", ",", "list_layout", ",",
        "media_layout", ",", "reference_layout">>,
      <<"REASONING:", "see", "LAYOUT:", "media_layout">> }

Texts == UNION {[1..n -> ResponseLines] : n \in 0..MaxLines}

ResultData ==
    {[kind |-> "str", lines |-> t] : t \in Texts}
    \cup {[kind |-> "None", lines |-> <<>>], [kind |-> "list", lines |-> <<>>]}

\* exceptions agent.run raises by itself
AgentRunExceptions == {"RuntimeError", "TimeoutError"}

----------------------------------------------------------------------------
(* The state machine of one select_layout call. *)

Init ==
    /\ analysis \in [document_type : DocumentTypes,
                     code_block_count : Counts(CodeBlockThreshold),
                     table_count : Counts(TableThreshold),
                     youtube_link_count : Counts(MediaThreshold),
                     github_link_count : Counts(MediaThreshold),
                     section_count : Counts(SectionThreshold)]
    /\ agent \in {"None", "agent"}
    /\ pc = "call"
    /\ rule_decision = None
    /\ type_decision = None
    /\ result = None
    /\ raised = "none"
    /\ agent_runs = 0
    /\ assist_outcome = "not_invoked"
    /\ response = None
    /\ ClassifyIdle /\ IdIdle /\ SessionIdle /\ VarietyIdle /\ ParseIdle /\ ExtractIdle /\ PipelineIdle /\ BatchIdle

\* select_layout from its entry to its return, or into _select_layout_with_llm
\* up to the awaited agent.run.  `from agent import AgentState` (line 200)
\* stands before the try block, and whether it succeeds is decided by the
\* module named agent that the process finds: src/agent/agent.py defines no
\* AgentState, so with that module the import raises ImportError; with a
\* module that provides AgentState the call goes on to the await.
SelectLayout ==
    /\ pc = "call"
    /\ LET rule == _apply_rule_based_selection(analysis)
           type == _get_layout_from_document_type(analysis)
           step == select_layout_step(rule, type, agent)
       IN  /\ rule_decision' = rule
           /\ type_decision' = IF step = "return_rule_high" THEN None ELSE type
           /\ IF step = "llm"
              THEN \E imported \in BOOLEAN :
                      IF imported
                      THEN /\ pc' = "await_agent_run"
                           /\ agent_runs' = agent_runs + 1
                           /\ assist_outcome' = "pending"
                           /\ UNCHANGED <<result, raised>>
                      ELSE /\ pc' = "raised"
                           /\ raised' = "ImportError"
                           /\ assist_outcome' = "ImportError"
                           /\ UNCHANGED <<result, agent_runs>>
              ELSE /\ pc' = "returned"
                   /\ result' = IF step = "return_type" THEN type ELSE rule
                   /\ UNCHANGED <<raised, agent_runs, assist_outcome>>
    /\ UNCHANGED <<analysis, agent, response>>
    /\ UNCHANGED <<classifyVars, idVars, sessionVars, varietyVars, parseVars, extractVars, pipelineVars, batchVars>>

\* the coroutine is resumed with what the await produced
Resume(awaited, outcome) ==
    LET out == _select_layout_with_llm(analysis, awaited)
    IN  /\ assist_outcome' = outcome
        /\ IF IsRaise(out)
           THEN pc' = "raised" /\ raised' = out.raises /\ UNCHANGED result
           ELSE pc' = "returned" /\ result' = out /\ UNCHANGED raised
        /\ UNCHANGED <<analysis, agent, rule_decision, type_decision, agent_runs>>
        /\ UNCHANGED <<classifyVars, idVars, sessionVars, varietyVars, parseVars, extractVars, pipelineVars, batchVars>>

\* agent.run returns a result
AgentRunReturns ==
    /\ pc = "await_agent_run"
    /\ \E data \in ResultData :
          /\ response' = data
          /\ Resume(data, "returned")

\* agent.run raises
AgentRunRaises ==
    /\ pc = "await_agent_run"
    /\ \E exc \in AgentRunExceptions : Resume(Raise(exc), exc)
    /\ UNCHANGED response

\* the task running select_layout is cancelled while it is suspended (by its
\* caller, or by asyncio.wait_for when the caller's timeout expires):
\* CancelledError is thrown into the coroutine at the await
Cancel ==
    /\ pc = "await_agent_run"
    /\ Resume(Raise("CancelledError"), "CancelledError")
    /\ UNCHANGED response

Next == SelectLayout \/ AgentRunReturns \/ AgentRunRaises \/ Cancel

Spec == Init /\ [][Next]_vars

----------------------------------------------------------------------------
(* Vocabulary of the properties. *)

Taxonomy ==
    {"tutorial", "research", "article", "guide", "notes", "technical_doc", "overview"}

LayoutTypes ==
    {"instructional_layout", "data_layout", "news_layout", "list_layout",
     "summary_layout", "reference_layout", "media_layout"}

Started == pc # "call"
Finished == pc \in {"returned", "raised"}

MediaCount == analysis.youtube_link_count + analysis.github_link_count

NoThresholdExceeded ==
    /\ analysis.code_block_count <= 5
    /\ analysis.table_count <= 2
    /\ MediaCount <= 3
    /\ analysis.section_count <= 10

IsCandidate(d, layout, hundredths) ==
    /\ d # None
    /\ d.layout_type = layout
    /\ d.confidence = Num(hundredths)

InUnitInterval(c) == ~c.isnan /\ 0 <= c.hundredths /\ c.hundredths <= 100

Elements(seq) == {seq[i] : i \in DOMAIN seq}

----------------------------------------------------------------------------
(* Properties of the layout decision engine. *)

\* C1: the rule-based pass tries code_block_count > 5, table_count > 2,
\* youtube + github links > 3, section_count > 10 in this order and gives the
\* candidate of the first rule that fires (instructional_layout 0.90,
\* data_layout 0.85, media_layout 0.88, reference_layout 0.82), whatever the
\* later counts are; a count equal to its threshold does not fire, and when
\* no rule fires there is no candidate.
C1_RulePriority ==
    Started =>
        /\ analysis.code_block_count > 5
            => IsCandidate(rule_decision, "instructional_layout", 90)
        /\ (analysis.code_block_count <= 5 /\ analysis.table_count > 2)
            => IsCandidate(rule_decision, "data_layout", 85)
        /\ (analysis.code_block_count <= 5 /\ analysis.table_count <= 2
                /\ MediaCount > 3)
            => IsCandidate(rule_decision, "media_layout", 88)
        /\ (analysis.code_block_count <= 5 /\ analysis.table_count <= 2
                /\ MediaCount <= 3 /\ analysis.section_count > 10)
            => IsCandidate(rule_decision, "reference_layout", 82)
        /\ NoThresholdExceeded => rule_decision = None

\* the code block rule wins over three later rules that would fire too
C1_Witness ==
    /\ Started
    /\ analysis.code_block_count > 5
    /\ analysis.table_count > 2
    /\ MediaCount > 3
    /\ analysis.section_count > 10
    /\ IsCandidate(rule_decision, "instructional_layout", 90)

\* C2: when the rule-based candidate has confidence >= 0.85, select_layout
\* returns exactly that candidate and agent.run is never invoked, for every
\* document_type and with or without an agent.
C2_HighConfidenceRuleShortCircuits ==
    (Started /\ (\/ analysis.code_block_count > 5
                 \/ analysis.table_count > 2
                 \/ MediaCount > 3
                 \/ (rule_decision # None
                        /\ FloatGE(rule_decision.confidence, Num(85))))) =>
        /\ pc = "returned"
        /\ rule_decision # None
        /\ FloatGE(rule_decision.confidence, Num(85))
        /\ result = rule_decision
        /\ agent_runs = 0
        /\ assist_outcome = "not_invoked"

\* six code blocks and nothing else, an agent supplied, a type the table
\* does not hold: the candidate is returned and the agent is not run
C2_Witness ==
    /\ pc = "returned"
    /\ analysis.code_block_count = 6
    /\ analysis.table_count = 0
    /\ MediaCount = 0
    /\ analysis.section_count = 0
    /\ analysis.document_type = "unknown_type"
    /\ agent = "agent"
    /\ IsCandidate(result, "instructional_layout", 90)
    /\ agent_runs = 0

C3_Layout(doc_type) ==
    CASE doc_type = "tutorial" -> "instructional_layout"
      [] doc_type = "research" -> "data_layout"
      [] doc_type = "article" -> "news_layout"
      [] doc_type = "guide" -> "list_layout"
      [] doc_type = "notes" -> "summary_layout"
      [] doc_type = "technical_doc" -> "reference_layout"
      [] doc_type = "overview" -> "media_layout"

C3_Alternatives(doc_type) ==
    CASE doc_type = "tutorial" -> <<"data_layout", "news_layout", "list_layout">>
      [] doc_type = "research" -> <<"instructional_layout", "news_layout", "list_layout">>
      [] doc_type = "article" -> <<"instructional_layout", "data_layout", "list_layout">>
      [] OTHER -> <<"instructional_layout", "data_layout", "news_layout">>

\* C3: for each of the seven labels, when no rule fires select_layout
\* returns the layout of the type-mapping table for the label at confidence
\* 0.75, with the table's components for the label and, as alternatives,
\* the layouts of the first three other entries in table order, none of
\* them the chosen layout; the agent is not run, supplied or not.
C3_TypeMapping ==
    (Started /\ NoThresholdExceeded /\ analysis.document_type \in Taxonomy) =>
        /\ pc = "returned"
        /\ result.layout_type = C3_Layout(analysis.document_type)
        /\ result.confidence = Num(75)
        /\ result.component_suggestions
            = MappingGet(analysis.document_type).components
        /\ result.alternative_layouts = C3_Alternatives(analysis.document_type)
        /\ result.layout_type \notin Elements(result.alternative_layouts)
        /\ agent_runs = 0

\* a label in the middle of the table, an agent supplied, counts at their
\* thresholds
C3_Witness ==
    /\ pc = "returned"
    /\ analysis.document_type = "guide"
    /\ agent = "agent"
    /\ analysis.code_block_count = 5
    /\ analysis.section_count = 10
    /\ result.layout_type = "list_layout"
    /\ result.alternative_layouts
        = <<"instructional_layout", "data_layout", "news_layout">>

\* C4: a document_type outside the seven labels, no rule firing and no agent:
\* select_layout returns summary_layout at confidence 0.6, below the 0.75 of
\* a mapped type.
C4_UnknownTypeFallback ==
    (Started /\ NoThresholdExceeded /\ analysis.document_type \notin Taxonomy
        /\ agent = "None") =>
        /\ pc = "returned"
        /\ result.layout_type = "summary_layout"
        /\ result.confidence = Num(60)
        /\ FloatLT(result.confidence, Num(75))
        /\ agent_runs = 0

C4_Witness ==
    /\ pc = "returned"
    /\ analysis.document_type = "unknown_type"
    /\ agent = "None"
    /\ NoThresholdExceeded
    /\ IsCandidate(result, "summary_layout", 60)

\* C5: a rule-based candidate of confidence in [0.8, 0.85) comes from the
\* section rule alone (0.82); select_layout returns it whatever the
\* document_type maps to, and does not run the agent even when one is
\* supplied and the document_type is unknown.
C5_SectionRuleOverridesTypeMapping ==
    /\ (Started /\ rule_decision # None
            /\ FloatGE(rule_decision.confidence, Num(80))
            /\ FloatLT(rule_decision.confidence, Num(85)))
        => /\ analysis.section_count > 10
           /\ analysis.code_block_count <= 5
           /\ analysis.table_count <= 2
           /\ MediaCount <= 3
    /\ (Started /\ analysis.section_count > 10 /\ analysis.code_block_count <= 5
            /\ analysis.table_count <= 2 /\ MediaCount <= 3)
        => /\ pc = "returned"
           /\ IsCandidate(result, "reference_layout", 82)
           /\ result = rule_decision
           /\ agent_runs = 0
           /\ assist_outcome = "not_invoked"

\* the section rule against an unknown type with an agent, and against a
\* mapped type whose layout it overrides
C5_Witness ==
    /\ pc = "returned"
    /\ analysis.section_count > 10
    /\ analysis.document_type = "unknown_type"
    /\ agent = "agent"
    /\ IsCandidate(result, "reference_layout", 82)
    /\ type_decision.layout_type = "summary_layout"
    /\ agent_runs = 0

\* the confidence the response text of a returned agent.run carries
ResponseConfidence ==
    float(AfterMarker("CONFIDENCE:", FirstLineWith("CONFIDENCE:", response.lines)))

\* the assist tier was entered and the invocation failed or gave nothing a
\* valid decision can be made of
AssistFailed ==
    \/ assist_outcome = "ImportError"
    \/ assist_outcome \in AgentRunExceptions
    \/ /\ assist_outcome = "returned"
       /\ \/ response.kind # "str"
          \/ /\ In("CONFIDENCE:", response)
             /\ ~IsRaise(ResponseConfidence)
             /\ ~InUnitInterval(ResponseConfidence)

\* C6: whenever the assist tier is reached and the invocation fails (the
\* capability cannot be set up, agent.run raises, the output is not text, the
\* parsed confidence is out of range), select_layout raises nothing and
\* returns exactly the type-mapping result of the analysis.
C6_AssistFailureFallsBack ==
    (Finished /\ AssistFailed) =>
        /\ pc = "returned"
        /\ result = _get_layout_from_document_type(analysis)

\* C7: when the assist call is cancelled or times out while select_layout is
\* suspended on it, select_layout returns the type-mapping result and no
\* cancellation or timeout leaves it.
C7_CancelFallsBack ==
    (Finished /\ assist_outcome \in {"CancelledError", "TimeoutError"}) =>
        /\ pc = "returned"
        /\ result = _get_layout_from_document_type(analysis)

\* C8: every LayoutDecision select_layout returns, on every tier and for
\* every assist response, has one of the seven layout identifiers as its
\* layout_type.
C8_LayoutTypeInClosedSet ==
    pc = "returned" => result.layout_type \in LayoutTypes

\* C9: every LayoutDecision select_layout returns, on every tier and for
\* every assist response, has at most three alternative_layouts, none of
\* them the chosen layout_type.
C9_AlternativesExcludeChosen ==
    pc = "returned" =>
        /\ Len(result.alternative_layouts) <= 3
        /\ result.layout_type \notin Elements(result.alternative_layouts)

----------------------------------------------------------------------------
(* The component registry (src/agent/a2ui_generator.py). *)

\* the registered component types
VALID_COMPONENT_TYPES ==
    {"a2ui.HeadlineCard", "a2ui.TrendIndicator", "a2ui.TimelineEvent",
     "a2ui.NewsTicker",
     "a2ui.VideoCard", "a2ui.ImageCard", "a2ui.PlaylistCard",
     "a2ui.PodcastCard",
     "a2ui.StatCard", "a2ui.MetricRow", "a2ui.ProgressRing",
     "a2ui.ComparisonBar", "a2ui.DataTable", "a2ui.MiniChart",
     "a2ui.RankedItem", "a2ui.ChecklistItem", "a2ui.ProConItem",
     "a2ui.BulletPoint",
     "a2ui.LinkCard", "a2ui.ToolCard", "a2ui.BookCard", "a2ui.RepoCard",
     "a2ui.ProfileCard", "a2ui.CompanyCard", "a2ui.QuoteCard",
     "a2ui.ExpertTip",
     "a2ui.TLDR", "a2ui.KeyTakeaways", "a2ui.ExecutiveSummary",
     "a2ui.TableOfContents",
     "a2ui.ComparisonTable", "a2ui.VsCard", "a2ui.FeatureMatrix",
     "a2ui.PricingTable",
     "a2ui.StepCard", "a2ui.CodeBlock", "a2ui.CalloutCard",
     "a2ui.CommandCard",
     "a2ui.Section", "a2ui.Grid", "a2ui.Columns", "a2ui.Tabs",
     "a2ui.Accordion", "a2ui.Carousel", "a2ui.Sidebar",
     "a2ui.TagCloud", "a2ui.CategoryBadge", "a2ui.DifficultyBadge"}

\* C11: every name in the component_suggestions of a LayoutDecision that
\* select_layout returns, from the rule-based pass, the type-mapping pass or
\* the assist tier, is a component kind of the registry: 'a2ui.' followed by
\* the name is a member of VALID_COMPONENT_TYPES.
C11_SuggestionsAreRegistryKinds ==
    pc = "returned" =>
        \A name \in Elements(result.component_suggestions) :
            ("a2ui." \o name) \in VALID_COMPONENT_TYPES

----------------------------------------------------------------------------
(* The document classifier (src/agent/content_analyzer.py).                *)
(*                                                                         *)
(* A text is kept as the set of its words, its length and its number of    *)
(* list bullets; what parse_markdown found is kept as the number of code   *)
(* blocks.  `keyword in content_lower` is a substring test: LowerCase      *)
(* gives str.lower of a word and Substrings the keywords and labels a      *)
(* lower-cased word contains.                                              *)

\* code blocks of a document go up to this many
MaxCodeBlocks == 3

\* str.lower() of the words of the model
LowerCase(word) ==
    CASE word = "Step" -> "step"
      [] word = "Abstract" -> "abstract"
      [] word = "API" -> "api"
      [] word = "Tutorial" -> "tutorial"
      [] OTHER -> word

\* the keywords and labels that are substrings of a lower-cased word
Substrings(word) ==
    CASE word = "guidelines" -> {"guidelines", "guide"}
      [] word = "methodology" -> {"methodology", "method"}
      [] OTHER -> {word}

\* markdown.lower(), as the set of its words
content_lower(words) == {LowerCase(w) : w \in words}

\* any(keyword in content for keyword in keywords)
AnyKeywordIn(keywords, content) ==
    \E keyword \in keywords : \E w \in content : keyword \in Substrings(w)

tutorial_keywords == {"step", "tutorial", "how to", "guide", "lesson", "walkthrough"}
research_keywords == {"abstract", "methodology", "results", "conclusion", "references", "citation"}
tech_doc_keywords == {"api", "endpoint", "parameter", "function", "class", "method"}

TechDocCodeBlocks == 2
GuideCodeBlocks == 3
NotesLength == 1000
NotesBullets == 5

\* the heuristic with the research rule tried before the tutorial rule
ClassifyHeuristic_ResearchFirst(md, parsed_md) ==
    LET content == content_lower(md.words)
    IN  IF AnyKeywordIn(research_keywords, content) THEN "research"
        ELSE IF AnyKeywordIn(tutorial_keywords, content) THEN "tutorial"
        ELSE IF AnyKeywordIn(tech_doc_keywords, content)
                /\ parsed_md.code_blocks >= TechDocCodeBlocks THEN "technical_doc"
        ELSE IF parsed_md.code_blocks >= GuideCodeBlocks THEN "guide"
        ELSE IF md.len < NotesLength /\ md.bullets > NotesBullets THEN "notes"
        ELSE "article"

\* the heuristic with 'overview' as the label of a text no rule matches
ClassifyHeuristic_OverviewDefault(md, parsed_md) ==
    LET content == content_lower(md.words)
    IN  IF AnyKeywordIn(tutorial_keywords, content) THEN "tutorial"
        ELSE IF AnyKeywordIn(research_keywords, content) THEN "research"
        ELSE IF AnyKeywordIn(tech_doc_keywords, content)
                /\ parsed_md.code_blocks >= TechDocCodeBlocks THEN "technical_doc"
        ELSE IF parsed_md.code_blocks >= GuideCodeBlocks THEN "guide"
        ELSE IF md.len < NotesLength /\ md.bullets > NotesBullets THEN "notes"
        ELSE "overview"

\* lines 291-331
_classify_heuristic(md, parsed_md) ==
    LET content == content_lower(md.words)
    IN  IF AnyKeywordIn(tutorial_keywords, content) THEN "tutorial"
        ELSE IF AnyKeywordIn(research_keywords, content) THEN "research"
        ELSE IF AnyKeywordIn(tech_doc_keywords, content)
                /\ parsed_md.code_blocks >= TechDocCodeBlocks THEN "technical_doc"
        ELSE IF parsed_md.code_blocks >= GuideCodeBlocks THEN "guide"
        ELSE IF md.len < NotesLength /\ md.bullets > NotesBullets THEN "notes"
        ELSE "article"

\* line 259, in list order
valid_types == <<"tutorial", "research", "article", "guide", "notes", "technical_doc", "overview">>

\* lines 260-263: the labels found in response_text, in the order of valid_types
MatchingTypes(response_text) ==
    SelectSeq(valid_types, LAMBDA doc_type : \E w \in response_text : doc_type \in Substrings(w))

\* the try block without its handler: what the awaited agent.run raised, and
\* the AttributeError of .lower() on an output that is not text, leave the call
AnalyzeOutcome_NoHandler(awaited, md, parsed_md) ==
    IF IsRaise(awaited) THEN awaited
    ELSE IF awaited.kind # "str" THEN Raise("AttributeError")
    ELSE LET matching == MatchingTypes(content_lower(awaited.words))
         IN  [document_type |-> IF matching # <<>> THEN matching[1] ELSE "article"]

\* lines 245-267, from the point where the awaited agent.run gives its
\* outcome: an Exception raised by it, or by .lower() on an output that is
\* not text, is handled by the heuristic; anything else raised leaves the
\* call; a text gives the first label of valid_types it contains and, when it
\* contains none, leaves document_type at its default 'article'
AnalyzeOutcome(awaited, md, parsed_md) ==
    IF IsRaise(awaited)
    THEN IF awaited.raises \in ExceptionSubclasses
         THEN [document_type |-> _classify_heuristic(md, parsed_md)]
         ELSE awaited
    ELSE IF awaited.kind # "str"
    THEN [document_type |-> _classify_heuristic(md, parsed_md)]
    ELSE LET matching == MatchingTypes(content_lower(awaited.words))
         IN  [document_type |-> IF matching # <<>> THEN matching[1] ELSE "article"]

(* Inputs of the classifier. *)

MarkdownWords == {"Step", "guidelines", "Abstract", "methodology", "API", "hello"}

Markdowns ==
    [words : SUBSET MarkdownWords,
     len : {NotesLength - 1, NotesLength},
     bullets : {NotesBullets, NotesBullets + 1}]

ParsedMarkdowns == [code_blocks : 0..MaxCodeBlocks]

ClassifierResponses ==
    { {}, {"Tutorial"}, {"research", "Tutorial"}, {"guidelines"}, {"unsure"},
      {"overview"}, {"technical_doc", "notes"} }

ClassifierResultData ==
    {[kind |-> "str", words |-> ws] : ws \in ClassifierResponses}
    \cup {[kind |-> "None", words |-> {}], [kind |-> "list", words |-> {}]}

(* The state machine of one analyze_content call. *)

ClassifyInit ==
    /\ markdown \in Markdowns
    /\ parsed_markdown \in ParsedMarkdowns
    /\ classifier \in {"None", "agent"}
    /\ analyze_pc = "call"
    /\ document_type = "article"
    /\ classify_outcome = "not_invoked"
    /\ classifier_response = None
    /\ LayoutIdle /\ IdIdle /\ SessionIdle /\ VarietyIdle /\ ParseIdle /\ ExtractIdle /\ PipelineIdle /\ BatchIdle

\* the call goes on with the outcome of its try block
AnalyzeResume(awaited, outcome) ==
    LET out == AnalyzeOutcome(awaited, markdown, parsed_markdown)
    IN  /\ classify_outcome' = outcome
        /\ IF IsRaise(out)
           THEN analyze_pc' = "raised" /\ UNCHANGED document_type
           ELSE analyze_pc' = "returned" /\ document_type' = out.document_type
        /\ UNCHANGED <<markdown, parsed_markdown, classifier>>
        /\ UNCHANGED <<layoutVars, idVars, sessionVars, varietyVars, parseVars, extractVars, pipelineVars, batchVars>>

\* analyze_content from its entry to its return, or up to the awaited
\* agent.run.  `from agent import AgentState` (line 250) stands inside the
\* try block; whether it succeeds is decided by the module named agent that
\* the process finds.
AnalyzeContent ==
    /\ analyze_pc = "call"
    /\ IF classifier = "None"
       THEN /\ document_type' = _classify_heuristic(markdown, parsed_markdown)
            /\ analyze_pc' = "returned"
            /\ classify_outcome' = "absent"
            /\ UNCHANGED <<markdown, parsed_markdown, classifier>>
            /\ UNCHANGED <<layoutVars, idVars, sessionVars, varietyVars, parseVars, extractVars, pipelineVars, batchVars>>
       ELSE \E imported \in BOOLEAN :
               IF imported
               THEN /\ analyze_pc' = "await_agent_run"
                    /\ classify_outcome' = "pending"
                    /\ UNCHANGED <<markdown, parsed_markdown, classifier, document_type>>
                    /\ UNCHANGED <<layoutVars, idVars, sessionVars, varietyVars, parseVars, extractVars, pipelineVars, batchVars>>
               ELSE AnalyzeResume(Raise("ImportError"), "ImportError")
    /\ UNCHANGED classifier_response

\* agent.run returns a result
ClassifierRunReturns ==
    /\ analyze_pc = "await_agent_run"
    /\ \E data \in ClassifierResultData :
          /\ classifier_response' = data
          /\ AnalyzeResume(data,
                IF data.kind # "str" THEN "non_text"
                ELSE IF MatchingTypes(content_lower(data.words)) = <<>> THEN "no_label"
                ELSE "label")

\* agent.run raises
ClassifierRunRaises ==
    /\ analyze_pc = "await_agent_run"
    /\ \E exc \in AgentRunExceptions : AnalyzeResume(Raise(exc), "raised")
    /\ UNCHANGED classifier_response

\* the task running analyze_content is cancelled while it is suspended
ClassifierCancel ==
    /\ analyze_pc = "await_agent_run"
    /\ AnalyzeResume(Raise("CancelledError"), "CancelledError")
    /\ UNCHANGED classifier_response

ClassifyNext ==
    AnalyzeContent \/ ClassifierRunReturns \/ ClassifierRunRaises \/ ClassifierCancel

ClassifySpec == ClassifyInit /\ [][ClassifyNext]_vars

----------------------------------------------------------------------------
(* Properties of the document classifier. *)

\* the label was decided by _classify_heuristic
HeuristicDecided ==
    /\ analyze_pc = "returned"
    /\ classify_outcome \in {"absent", "ImportError", "raised", "non_text"}

\* what the words of the text hold, read off the words themselves
HasTutorialKeyword == markdown.words \cap {"Step", "guidelines"} # {}
HasResearchKeyword == markdown.words \cap {"Abstract", "methodology"} # {}
HasTechKeyword == markdown.words \cap {"API", "methodology"} # {}
ShortWithManyBullets == markdown.len < 1000 /\ markdown.bullets > 5

\* C12: _classify_heuristic tries its rules in the fixed order tutorial
\* keyword => tutorial; else research keyword => research; else (API or
\* technical keyword and at least 2 code blocks) => technical_doc; else at
\* least 3 code blocks => guide; else (text shorter than 1000 characters and
\* more than 5 list bullets) => notes; else article.  The first rule that
\* matches decides, so a text with a tutorial and a research keyword is
\* tutorial whatever its number of code blocks.
C12_HeuristicOrder ==
    HeuristicDecided =>
        LET blocks == parsed_markdown.code_blocks
        IN  /\ HasTutorialKeyword => document_type = "tutorial"
            /\ (~HasTutorialKeyword /\ HasResearchKeyword) => document_type = "research"
            /\ (~HasTutorialKeyword /\ ~HasResearchKeyword /\ HasTechKeyword /\ blocks >= 2)
                => document_type = "technical_doc"
            /\ (~HasTutorialKeyword /\ ~HasResearchKeyword
                    /\ ~(HasTechKeyword /\ blocks >= 2) /\ blocks >= 3)
                => document_type = "guide"
            /\ (~HasTutorialKeyword /\ ~HasResearchKeyword
                    /\ ~(HasTechKeyword /\ blocks >= 2) /\ blocks < 3 /\ ShortWithManyBullets)
                => document_type = "notes"
            /\ (~HasTutorialKeyword /\ ~HasResearchKeyword
                    /\ ~(HasTechKeyword /\ blocks >= 2) /\ blocks < 3 /\ ~ShortWithManyBullets)
                => document_type = "article"

\* a short, bullet-rich text with a tutorial, a research and an API keyword
\* and three code blocks has been classified by the heuristic
C12_Witness ==
    /\ HeuristicDecided
    /\ {"Step", "Abstract", "API"} \subseteq markdown.words
    /\ parsed_markdown.code_blocks >= 3
    /\ ShortWithManyBullets
    /\ document_type = "tutorial"

\* the assist behaviours: no agent, an agent that cannot be set up or whose
\* run raises, an output that is not text, a text naming no label, a text
\* naming a label
AssistBehaviours ==
    {"absent", "ImportError", "raised", "non_text", "no_label", "label"}

\* C13: for every behaviour of the assist (absent, raising, giving an output
\* that is not text, giving a text that names no label) analyze_content
\* raises nothing and ends with a document_type that is one of the seven
\* labels of the taxonomy.
C13_AlwaysResolvesToLabel ==
    classify_outcome \in AssistBehaviours =>
        /\ analyze_pc = "returned"
        /\ document_type \in Taxonomy

\* agent.run raised and analyze_content has returned
C13_Witness ==
    /\ classify_outcome = "raised"
    /\ analyze_pc = "returned"
    /\ classifier = "agent"

\* C14: when an agent is supplied and its response names no label of the
\* taxonomy, analyze_content ends with the label _classify_heuristic gives
\* for the same text and parsed structure, as it does when the agent is
\* unavailable or raises.
C14_NoLabelFallsBackToHeuristic ==
    (analyze_pc = "returned" /\ classify_outcome = "no_label") =>
        document_type = _classify_heuristic(markdown, parsed_markdown)

----------------------------------------------------------------------------
(* Identifiers and construction of components (src/agent/a2ui_generator.py). *)
(*                                                                         *)
(* The strings of this part are sequences of characters, so that           *)
(* startswith, strip, lstrip and the PascalCase to kebab-case conversion   *)
(* are computed character by character; Str gives the string a sequence    *)
(* of characters spells.  An argument left at its default None is Absent.  *)

\* generate_id and generate_component are called up to this many times
\* between two resets
MaxCalls == 2

Absent == <<"None">>

RECURSIVE Str(_)
Str(chars) == IF chars = <<>> THEN "" ELSE chars[1] \o Str(Tail(chars))

ascii_uppercase ==
    <<"A", "B", "C", "D", "E", "F", "G", "H", "I", "J", "K", "L", "M",
      "N", "O", "P", "Q", "R", "S", "T", "U", "V", "W", "X", "Y", "Z">>
ascii_lowercase ==
    <<"a", "b", "c", "d", "e", "f", "g", "h", "i", "j", "k", "l", "m",
      "n", "o", "p", "q", "r", "s", "t", "u", "v", "w", "x", "y", "z">>
digits == <<"0", "1", "2", "3", "4", "5", "6", "7", "8", "9">>

isupper(c) == c \in Elements(ascii_uppercase)
lower(c) ==
    IF isupper(c)
    THEN ascii_lowercase[CHOOSE i \in DOMAIN ascii_uppercase : ascii_uppercase[i] = c]
    ELSE c
isalnum(c) ==
    c \in Elements(ascii_uppercase) \cup Elements(ascii_lowercase) \cup Elements(digits)

\* str(n) of a natural number
RECURSIVE str(_)
str(n) ==
    IF n < 10 THEN <<digits[n + 1]>>
    ELSE str(n \div 10) \o <<digits[(n % 10) + 1]>>

startswith(s, head) == Len(s) >= Len(head) /\ SubSeq(s, 1, Len(head)) = head

RECURSIVE lstrip(_, _)
lstrip(s, c) == IF s # <<>> /\ s[1] = c THEN lstrip(Tail(s), c) ELSE s

RECURSIVE rstrip(_, _)
rstrip(s, c) ==
    IF s # <<>> /\ s[Len(s)] = c THEN rstrip(SubSeq(s, 1, Len(s) - 1), c) ELSE s

\* s.strip(), blanks being the white space of the model
strip(s) == rstrip(lstrip(s, " "), " ")

A2UI == <<"a", "2", "u", "i", ".">>

\* line 201: ''.join(['-' + c.lower() if c.isupper() else c for c in name])
RECURSIVE KebabJoin(_)
KebabJoin(name) ==
    IF name = <<>> THEN <<>>
    ELSE (IF isupper(name[1]) THEN <<"-", lower(name[1])>> ELSE <<name[1]>>)
         \o KebabJoin(Tail(name))

\* the first 8 hexadecimal digits of a uuid4: drawn at random at each call,
\* so any value, one drawn before included
UuidHexPrefixes ==
    { <<"1", "a", "2", "b", "3", "c", "4", "d">>,
      <<"0", "f", "9", "e", "8", "d", "7", "c">> }

ComponentDash == <<"c", "o", "m", "p", "o", "n", "e", "n", "t", "-">>

\* generate_id with the prefix ignored
GenerateId_PrefixIgnored(component_type, prefix, counter, token) ==
    IF startswith(component_type, A2UI)
    THEN lstrip(KebabJoin(SubSeq(component_type, 6, Len(component_type))), "-")
         \o <<"-">> \o str(counter)
    ELSE ComponentDash \o token

\* lines 193-206, counter being _id_counter after its increment and token
\* what uuid.uuid4().hex[:8] gives
generate_id(component_type, prefix, counter, token) ==
    IF prefix # Absent /\ prefix # <<>>
    THEN prefix \o <<"-">> \o str(counter)
    ELSE IF startswith(component_type, A2UI)
    THEN lstrip(KebabJoin(SubSeq(component_type, 6, Len(component_type))), "-")
         \o <<"-">> \o str(counter)
    ELSE ComponentDash \o token

\* the pattern of the type field, ^a2ui\.[A-Z][a-zA-Z0-9]*$
MatchesTypePattern(type) ==
    /\ startswith(type, A2UI)
    /\ Len(type) >= 6
    /\ isupper(type[6])
    /\ \A i \in 7..Len(type) : isalnum(type[i])

\* lines 22-83: the model with its field pattern and its two validators;
\* the component keeps the type and the stripped id (as characters)
A2UIComponent(type, id) ==
    IF ~MatchesTypePattern(type) \/ ~startswith(type, A2UI) THEN Raise("ValidationError")
    ELSE IF id = <<>> \/ strip(id) = <<>> THEN Raise("ValidationError")
    ELSE [type |-> Str(type), id |-> strip(id)]

\* generate_component without the registry check of lines 256-260
GenerateComponent_NoRegistryCheck(component_type, component_id, counter, token) ==
    A2UIComponent(component_type,
                  IF component_id = Absent
                  THEN generate_id(component_type, Absent, counter, token)
                  ELSE component_id)

\* lines 256-274, counter being _id_counter after the increment of a
\* generate_id call
generate_component(component_type, component_id, counter, token) ==
    IF Str(component_type) \notin VALID_COMPONENT_TYPES THEN Raise("ValueError")
    ELSE A2UIComponent(component_type,
                       IF component_id = Absent
                       THEN generate_id(component_type, Absent, counter, token)
                       ELSE component_id)

(* Inputs. *)

StatCardType == <<"a", "2", "u", "i", ".", "S", "t", "a", "t", "C", "a", "r", "d">>
TLDRType == <<"a", "2", "u", "i", ".", "T", "L", "D", "R">>
WidgetType == <<"a", "2", "u", "i", ".", "W", "i", "d", "g", "e", "t">>
BareStatCardType == <<"S", "t", "a", "t", "C", "a", "r", "d">>

ComponentTypes == {StatCardType, TLDRType, WidgetType, BareStatCardType}

Prefixes == {Absent, <<>>, <<"s", "t", "a", "t">>}

ComponentIds ==
    {Absent, <<>>, <<" ", " ">>, <<" ", "k", "p", "i", " ">>}

(* The state machine of the ID counter: the calls a process makes, one     *)
(* after the other, of generate_id, reset_id_counter, generate_component   *)
(* and of the A2UIComponent constructor.                                   *)

IdInit ==
    /\ _id_counter = 0
    /\ issued = <<>>
    /\ component = None
    /\ LayoutIdle /\ ClassifyIdle /\ SessionIdle /\ VarietyIdle /\ ParseIdle /\ ExtractIdle /\ PipelineIdle /\ BatchIdle

GenerateId ==
    /\ Len(issued) < MaxCalls
    /\ \E component_type \in ComponentTypes, prefix \in Prefixes, token \in UuidHexPrefixes :
          /\ _id_counter' = _id_counter + 1
          /\ issued' = Append(issued,
                [component_type |-> Str(component_type),
                 prefix |-> IF prefix = Absent THEN "None" ELSE Str(prefix),
                 id |-> Str(generate_id(component_type, prefix, _id_counter + 1, token))])
    /\ UNCHANGED component
    /\ UNCHANGED <<layoutVars, classifyVars, sessionVars, varietyVars, parseVars, extractVars, pipelineVars, batchVars>>

ResetIdCounter ==
    /\ _id_counter' = 0
    /\ issued' = <<>>
    /\ UNCHANGED component
    /\ UNCHANGED <<layoutVars, classifyVars, sessionVars, varietyVars, parseVars, extractVars, pipelineVars, batchVars>>

GenerateComponent ==
    /\ Len(issued) < MaxCalls
    /\ \E component_type \in ComponentTypes, component_id \in ComponentIds, token \in UuidHexPrefixes :
          LET out == generate_component(component_type, component_id, _id_counter + 1, token)
              auto == component_id = Absent /\ Str(component_type) \in VALID_COMPONENT_TYPES
          IN  /\ component' = [call |-> "generate_component",
                               type |-> Str(component_type),
                               id |-> IF component_id = Absent THEN "None" ELSE Str(component_id),
                               outcome |-> out]
              /\ IF auto
                 THEN /\ _id_counter' = _id_counter + 1
                      /\ issued' = Append(issued,
                            [component_type |-> Str(component_type), prefix |-> "None",
                             id |-> Str(generate_id(component_type, Absent, _id_counter + 1, token))])
                 ELSE UNCHANGED <<_id_counter, issued>>
    /\ UNCHANGED <<layoutVars, classifyVars, sessionVars, varietyVars, parseVars, extractVars, pipelineVars, batchVars>>

ConstructComponent ==
    /\ \E type \in ComponentTypes, id \in ComponentIds \ {Absent} :
          component' = [call |-> "A2UIComponent", type |-> Str(type), id |-> Str(id),
                        outcome |-> A2UIComponent(type, id)]
    /\ UNCHANGED <<_id_counter, issued>>
    /\ UNCHANGED <<layoutVars, classifyVars, sessionVars, varietyVars, parseVars, extractVars, pipelineVars, batchVars>>

IdNext == GenerateId \/ ResetIdCounter \/ GenerateComponent \/ ConstructComponent

IdSpec == IdInit /\ [][IdNext]_vars

----------------------------------------------------------------------------
(* Properties of the ID counter and of component construction. *)

\* the kebab-case form of the kinds of the model, written out
KebabOfKind(component_type) ==
    CASE component_type = "a2ui.StatCard" -> "stat-card"
      [] component_type = "a2ui.TLDR" -> "t-l-d-r"
      [] component_type = "a2ui.Widget" -> "widget"
      [] component_type = "StatCard" -> "stat-card"

\* the call was made with a prefix that is not empty
WithPrefix(call) == call.prefix \notin {"None", ""}

\* C15 as stated: for any sequence of generate_id and reset_id_counter calls
\* the n-th generate_id call after the most recent reset returns
\* '{prefix}-{n}' when a prefix is given and '{kebab-case-of-kind}-{n}' when
\* none is, for every kind, and after a reset the next id ends in 1.
C15_CounterSuffixForEveryCall ==
    \A n \in DOMAIN issued :
        issued[n].id =
            (IF WithPrefix(issued[n]) THEN issued[n].prefix
             ELSE KebabOfKind(issued[n].component_type)) \o "-" \o ToString(n)

\* C15, amended: the n-th generate_id call after the most recent reset (or
\* since the module was loaded) returns '{prefix}-{n}' when a prefix that is
\* not empty is given, and '{kebab-case-of-kind}-{n}' when the prefix is
\* absent or empty and the kind starts with 'a2ui.'; a call with no such
\* prefix and a kind that does not start with 'a2ui.' returns 'component-'
\* followed by 8 hexadecimal digits, without the counter, and still advances
\* the counter.  The counter is shared across kinds and prefixes and after
\* reset_id_counter the next id ends in 1 again.
C15_CounterSuffix ==
    /\ _id_counter = Len(issued)
    /\ \A n \in DOMAIN issued :
          LET call == issued[n]
          IN  /\ WithPrefix(call) => call.id = call.prefix \o "-" \o ToString(n)
              /\ (~WithPrefix(call) /\ call.component_type # "StatCard")
                    => call.id = KebabOfKind(call.component_type) \o "-" \o ToString(n)
              /\ (~WithPrefix(call) /\ call.component_type = "StatCard")
                    => call.id \in {"component-" \o Str(token) : token \in UuidHexPrefixes}

\* a prefixed id and then the id of another kind without prefix: the second
\* call carries the counter on
C15_Witness ==
    /\ Len(issued) = 2
    /\ issued[1].id = "stat-1"
    /\ issued[2].component_type = "a2ui.TLDR"
    /\ issued[2].id = "t-l-d-r-2"

\* C16: the ids generate_id returned and generate_component assigned since
\* the last reset_id_counter are pairwise distinct, for any mix of kinds and
\* prefixes.
C16_IdsPairwiseDistinct ==
    \A i, j \in DOMAIN issued : i # j => issued[i].id # issued[j].id

\* C18: generate_component raises for every kind that is not in
\* VALID_COMPONENT_TYPES and for every id given by the caller that is empty
\* after trimming; constructing an A2UIComponent with a type that lacks the
\* 'a2ui.' prefix or with an empty id fails; every component
\* generate_component returns has a registered type and an id that is not
\* empty and has no blank at either end.
C18_NoInvalidComponent ==
    component # None =>
        LET out == component.outcome
        IN  /\ (component.call = "generate_component"
                    /\ component.type \notin VALID_COMPONENT_TYPES) => IsRaise(out)
            /\ component.id \in {"", "  "} => IsRaise(out)
            /\ component.type = "StatCard" => IsRaise(out)
            /\ (component.call = "generate_component" /\ ~IsRaise(out)) =>
                    /\ out.type \in VALID_COMPONENT_TYPES
                    /\ out.id # <<>>
                    /\ out.id[1] # " "
                    /\ out.id[Len(out.id)] # " "

\* generate_component was given an id with blanks around it and returned a
\* component with the trimmed id
C18_Witness ==
    /\ component # None
    /\ component.call = "generate_component"
    /\ component.id = " kpi "
    /\ ~IsRaise(component.outcome)
    /\ component.outcome.id = <<"k", "p", "i">>

----------------------------------------------------------------------------
(* Generation sessions (src/agent/llm_orchestrator.py): runs of the async  *)
(* generator orchestrate_dashboard_with_llm in one process and on one      *)
(* event loop.  A run is suspended at its three awaited assist calls and   *)
(* at each yield; between two suspension points it runs alone.  All runs   *)
(* share the module global _id_counter.                                    *)

\* component specifications select_components_with_llm hands to a run
MaxSpecs == 2

Sessions == {1, 2}

\* the kinds the specifications of a run ask for
SpecKinds == {StatCardType, TLDRType}

ComponentSpecLists == UNION {[1..n -> SpecKinds] : n \in 0..MaxSpecs}

\* build_a2ui_component for a specification of a registered kind: the
\* adapter of the kind calls the registry's build without an id, so the id
\* is generate_id's for the kind, at the counter after its increment
build_a2ui_component(kind, counter) ==
    generate_component(kind, Absent, counter, CHOOSE token \in UuidHexPrefixes : TRUE)

SessionInit ==
    /\ session = [s \in Sessions |-> [pc |-> "start", specs |-> <<>>, emitted |-> <<>>]]
    /\ _id_counter = 0
    /\ issued = <<>>
    /\ component = None
    /\ LayoutIdle /\ ClassifyIdle /\ VarietyIdle /\ ParseIdle /\ ExtractIdle /\ PipelineIdle /\ BatchIdle

\* lines 463-477: the run starts, resets the counter, parses the text and
\* is suspended on analyze_content_with_llm
SessionStart(s) ==
    /\ session[s].pc = "start"
    /\ _id_counter' = 0
    /\ issued' = <<>>
    /\ session' = [session EXCEPT ![s].pc = "await_analyze_content"]
    /\ UNCHANGED component
    /\ UNCHANGED <<layoutVars, classifyVars, varietyVars, parseVars, extractVars, pipelineVars, batchVars>>

\* lines 477-491: the analysis arrives, the run is suspended on
\* select_layout_with_llm
SessionAnalyzed(s) ==
    /\ session[s].pc = "await_analyze_content"
    /\ session' = [session EXCEPT ![s].pc = "await_select_layout"]
    /\ UNCHANGED <<_id_counter, issued, component>>
    /\ UNCHANGED <<layoutVars, classifyVars, varietyVars, parseVars, extractVars, pipelineVars, batchVars>>

\* lines 491-498: the layout arrives, the run is suspended on
\* select_components_with_llm
SessionLayoutSelected(s) ==
    /\ session[s].pc = "await_select_layout"
    /\ session' = [session EXCEPT ![s].pc = "await_select_components"]
    /\ UNCHANGED <<_id_counter, issued, component>>
    /\ UNCHANGED <<layoutVars, classifyVars, varietyVars, parseVars, extractVars, pipelineVars, batchVars>>

\* lines 506-512, one turn of the loop: the next specification is built and
\* the component is yielded, or the loop is over and the run ends
SessionBuildNext(s, specs) ==
    IF specs = <<>>
    THEN /\ session' = [session EXCEPT ![s].pc = "done", ![s].specs = <<>>]
         /\ UNCHANGED <<_id_counter, issued, component>>
    ELSE LET built == build_a2ui_component(Head(specs), _id_counter + 1)
         IN  /\ _id_counter' = _id_counter + 1
             /\ issued' = Append(issued,
                    [component_type |-> built.type, prefix |-> "None", id |-> Str(built.id)])
             /\ component' = [call |-> "generate_component", type |-> built.type,
                              id |-> "None", outcome |-> built]
             /\ session' = [session EXCEPT ![s].pc = "yield",
                                           ![s].specs = Tail(specs),
                                           ![s].emitted = Append(@, Str(built.id))]

\* lines 494-512: the specifications arrive and the loop is entered
SessionComponentsSelected(s) ==
    /\ session[s].pc = "await_select_components"
    /\ \E component_specs \in ComponentSpecLists : SessionBuildNext(s, component_specs)
    /\ UNCHANGED <<layoutVars, classifyVars, varietyVars, parseVars, extractVars, pipelineVars, batchVars>>

\* the consumer asks for the next component: the run goes on after its yield
SessionResumed(s) ==
    /\ session[s].pc = "yield"
    /\ SessionBuildNext(s, session[s].specs)
    /\ UNCHANGED <<layoutVars, classifyVars, varietyVars, parseVars, extractVars, pipelineVars, batchVars>>

SessionNext ==
    \E s \in Sessions :
        \/ SessionStart(s)
        \/ SessionAnalyzed(s)
        \/ SessionLayoutSelected(s)
        \/ SessionComponentsSelected(s)
        \/ SessionResumed(s)

SessionSpec == SessionInit /\ [][SessionNext]_vars

\* C17: when two runs of orchestrate_dashboard_with_llm in one process
\* interleave at their suspension points, each resetting the ID counter at
\* its start, the ids of the components each single run has emitted are
\* pairwise distinct.
C17_SessionIdsDistinctWhenInterleaved ==
    \A s \in Sessions :
        \A i, j \in DOMAIN session[s].emitted :
            i # j => session[s].emitted[i] # session[s].emitted[j]

----------------------------------------------------------------------------
(* The variety check (src/demo_variety_enforcement.py).  A sequence of     *)
(* components is kept as the sequence of their types.                      *)

\* components of a checked sequence go up to this many
MaxComponents == 6

MinUniqueTypes == 4
MaxConsecutive == 2

\* lines 44-53: the loop over range(1, len(component_types)), from index i
\* (counted from 1 here) on
RECURSIVE RunScan(_, _, _, _)
RunScan(types, i, current_consecutive, max_consecutive) ==
    IF i > Len(types) THEN max_consecutive
    ELSE IF types[i] = types[i - 1]
    THEN RunScan(types, i + 1, current_consecutive + 1,
                 IF current_consecutive + 1 > max_consecutive
                 THEN current_consecutive + 1 ELSE max_consecutive)
    ELSE RunScan(types, i + 1, 1, max_consecutive)

\* component_types.count(t)
Count(types, t) == Cardinality({i \in DOMAIN types : types[i] = t})

\* validate_variety with a run of three still allowed
ValidateVariety_RunOfThreeAllowed(types) ==
    IF types = <<>>
    THEN [valid |-> FALSE, unique_types_count |-> 0, max_consecutive_same_type |-> 0,
          violations |-> <<"No components provided">>]
    ELSE LET unique_types == Elements(types)
             unique_count == Cardinality(unique_types)
             max_consecutive == RunScan(types, 2, 1, 1)
             meets_min_types == unique_count >= MinUniqueTypes
             meets_no_consecutive == max_consecutive <= MaxConsecutive + 1
         IN  [valid |-> meets_min_types /\ meets_no_consecutive,
              unique_types_count |-> unique_count,
              max_consecutive_same_type |-> max_consecutive,
              meets_min_types |-> meets_min_types,
              meets_no_consecutive |-> meets_no_consecutive,
              violations |->
                  (IF ~meets_min_types
                   THEN <<"Only " \o ToString(unique_count) \o " unique type(s), minimum required is 4">>
                   ELSE <<>>)
                  \o (IF ~meets_no_consecutive
                      THEN <<"Found " \o ToString(max_consecutive) \o " consecutive same type, maximum allowed is 2">>
                      ELSE <<>>),
              component_type_distribution |-> [t \in unique_types |-> Count(types, t)]]

\* lines 22-77
validate_variety(types) ==
    IF types = <<>>
    THEN [valid |-> FALSE, unique_types_count |-> 0, max_consecutive_same_type |-> 0,
          violations |-> <<"No components provided">>]
    ELSE LET unique_types == Elements(types)
             unique_count == Cardinality(unique_types)
             max_consecutive == RunScan(types, 2, 1, 1)
             meets_min_types == unique_count >= MinUniqueTypes
             meets_no_consecutive == max_consecutive <= MaxConsecutive
         IN  [valid |-> meets_min_types /\ meets_no_consecutive,
              unique_types_count |-> unique_count,
              max_consecutive_same_type |-> max_consecutive,
              meets_min_types |-> meets_min_types,
              meets_no_consecutive |-> meets_no_consecutive,
              violations |->
                  (IF ~meets_min_types
                   THEN <<"Only " \o ToString(unique_count) \o " unique type(s), minimum required is 4">>
                   ELSE <<>>)
                  \o (IF ~meets_no_consecutive
                      THEN <<"Found " \o ToString(max_consecutive) \o " consecutive same type, maximum allowed is 2">>
                      ELSE <<>>),
              component_type_distribution |-> [t \in unique_types |-> Count(types, t)]]

(* Inputs. *)

VarietyTypes ==
    {"a2ui.TLDR", "a2ui.StatCard", "a2ui.CodeBlock", "a2ui.Section", "a2ui.LinkCard"}

TypeSequences == UNION {[1..n -> VarietyTypes] : n \in 0..MaxComponents}

(* The state machine of one validate_variety call. *)

VarietyInit ==
    /\ component_types \in TypeSequences
    /\ report = None
    /\ LayoutIdle /\ ClassifyIdle /\ IdIdle /\ SessionIdle /\ ParseIdle /\ ExtractIdle /\ PipelineIdle /\ BatchIdle

ValidateVariety ==
    /\ report = None
    /\ report' = validate_variety(component_types)
    /\ UNCHANGED component_types
    /\ UNCHANGED <<layoutVars, classifyVars, idVars, sessionVars, parseVars, extractVars, pipelineVars, batchVars>>

VarietyNext == ValidateVariety

VarietySpec == VarietyInit /\ [][VarietyNext]_vars

----------------------------------------------------------------------------
(* Properties of the variety check. *)

DistinctTypes == Cardinality(Elements(component_types))

\* some k consecutive components, k >= 1, share their type
HasRunOf(k) ==
    \E i \in 1..(Len(component_types) - k + 1) :
        \A j \in i..(i + k - 1) : component_types[j] = component_types[i]

\* the length of the longest run of equal adjacent types, 0 for no components
LongestRun ==
    IF component_types = <<>> THEN 0
    ELSE CHOOSE k \in 1..Len(component_types) : HasRunOf(k) /\ ~HasRunOf(k + 1)

\* C19: validate_variety reports a sequence as valid if and only if it has
\* at least 4 distinct types and no run of 3 or more consecutive components
\* of one type; so the empty sequence and every sequence of fewer than 4
\* components are invalid, and a run of exactly 2 is allowed.
C19_ValidIffVaried ==
    report # None =>
        /\ report.valid <=> (DistinctTypes >= 4 /\ ~HasRunOf(3))
        /\ Len(component_types) < 4 => ~report.valid

\* a sequence with 4 distinct types and a run of exactly 2 was found valid
C19_Witness ==
    /\ report # None
    /\ report.valid
    /\ DistinctTypes = 4
    /\ HasRunOf(2)

RECURSIVE SumOver(_, _)
SumOver(f, keys) ==
    IF keys = {} THEN 0
    ELSE LET k == CHOOSE x \in keys : TRUE IN f[k] + SumOver(f, keys \ {k})

\* C20: for every sequence, the empty one included, the report holds the
\* number of distinct types, the length of the longest run of equal adjacent
\* types, one violation string for each of the two conditions that failed
\* and none for one that held, and a per-type distribution whose counts sum
\* to the length of the sequence.
C20_ReportContents ==
    report # None =>
        /\ report.unique_types_count = DistinctTypes
        /\ report.max_consecutive_same_type = LongestRun
        /\ Len(report.violations)
              = (IF DistinctTypes < 4 THEN 1 ELSE 0) + (IF HasRunOf(3) THEN 1 ELSE 0)
        /\ "component_type_distribution" \in DOMAIN report
        /\ SumOver(report.component_type_distribution,
                   DOMAIN report.component_type_distribution) = Len(component_types)


-----------------------------------------------------------------------------
(***************************************************************************)
(* One orchestrated run with its assist calls and intent adapters          *)
(* (src/agent/llm_orchestrator.py).  What the assist answers is JSON of    *)
(* uncertain shape; a JSON value is kept with its kind, an object with     *)
(* its members as a function from keys to JSON values.                     *)
(***************************************************************************)
MaxIntents == 2

JsonNull == [json |-> "null"]

JsonString(s) == [json |-> "string", value |-> s]

JsonNumber(n) == [json |-> "number", value |-> n]

JsonArray(elems) == [json |-> "array", elements |-> elems]

JsonObject(members) == [json |-> "object", members |-> members]

NoMembers == [key \in {} |-> JsonNull]

\* bool(value) of Python for the value a JSON text loads to
truthy(value) ==
    CASE value.json = "null" -> FALSE
      [] value.json = "string" -> value.value # ""
      [] value.json = "number" -> value.value # 0
      [] value.json = "array" -> value.elements # <<>>
      [] value.json = "object" -> DOMAIN value.members # {}

IsStr(value) == value.json = "string"

\* value.get(key, default): only a dict has the method, on any other value
\* the attribute lookup raises AttributeError
dict_get(value, key, default) ==
    IF value.json # "object" THEN Raise("AttributeError")
    ELSE IF key \in DOMAIN value.members THEN value.members[key]
    ELSE default

\* json.dumps(props, indent=2)[:200]: the first DumpLimit characters of
\* the JSON text of props
DumpLimit == 200

json_dumps_head(props) == [dumps |-> props, head |-> DumpLimit]

\* the generators of a2ui_generator the adapters call: a generator builds
\* the component of its kind from required strings that are not empty and
\* raises ValueError otherwise
generate_tldr(content) ==
    IF IsStr(content) /\ truthy(content) THEN [type |-> "a2ui.TLDR", content |-> content.value]
    ELSE Raise("ValueError")

generate_link_card(url, title) ==
    IF IsStr(url) /\ truthy(url) /\ IsStr(title) /\ truthy(title) THEN [type |-> "a2ui.LinkCard", url |-> url.value, title |-> title.value]
    ELSE Raise("ValueError")

generate_key_takeaways(items) ==
    IF items.json = "array" /\ truthy(items) THEN [type |-> "a2ui.KeyTakeaways", items |-> items.elements]
    ELSE Raise("ValueError")

generate_badge(label, count) ==
    IF IsStr(label) /\ truthy(label) THEN [type |-> "a2ui.Badge", label |-> label.value, count |-> count]
    ELSE Raise("ValueError")

generate_callout_card(type, title, content) ==
    IF IsStr(title) /\ truthy(title) THEN [type |-> "a2ui.CalloutCard", variant |-> type, title |-> title.value, content |-> content]
    ELSE Raise("ValueError")

\* lines 436-444, the branch of a kind no adapter handles
GenericFallback_Dropped(component_type, props) == None

GenericFallback(component_type, props) ==
    generate_callout_card("info", component_type, IF truthy(props) THEN json_dumps_head(props) ELSE "Component data")

\* the kinds with an adapter that the model follows; an intent the assist
\* returned names one of the first two, the fallback intents of
\* select_components_with_llm the others as well
TLDRKind == JsonString("TLDR")
LinkCardKind == JsonString("LinkCard")
KeyTakeawaysKind == JsonString("KeyTakeaways")
CalloutCardKind == JsonString("CalloutCard")
BadgeKind == JsonString("Badge")

HandledKinds == {TLDRKind, LinkCardKind, KeyTakeawaysKind, CalloutCardKind, BadgeKind}

\* lines 289-444, the body of the try statement: what it returns, or the
\* exception raised inside it
BuildTry(component_type, props) ==
    CASE component_type = TLDRKind ->
           LET content == dict_get(props, "content", JsonString("Summary of the document"))
           IN  IF IsRaise(content) THEN content
               ELSE IF content.json \notin {"string", "array", "object"} THEN Raise("TypeError")
               ELSE generate_tldr(content)
      [] component_type = KeyTakeawaysKind ->
           LET items == dict_get(props, "items", JsonArray(<<JsonString("Key takeaway 1"), JsonString("Key takeaway 2")>>))
           IN  IF IsRaise(items) THEN items
               ELSE IF ~truthy(items) THEN generate_key_takeaways(JsonArray(<<JsonString("Key takeaway 1"), JsonString("Key takeaway 2")>>))
               ELSE generate_key_takeaways(items)
      [] component_type = CalloutCardKind ->
           LET type == dict_get(props, "type", JsonString("info"))
           IN  IF IsRaise(type) THEN type
               ELSE generate_callout_card(type, dict_get(props, "title", JsonString("Note")), dict_get(props, "content", JsonString("Important information")))
      [] component_type = LinkCardKind ->
           LET url == dict_get(props, "url", JsonString(""))
           IN  IF IsRaise(url) THEN url
               ELSE IF ~truthy(url) THEN None
               ELSE generate_link_card(url, dict_get(props, "title", JsonString("Resource")))
      [] component_type = BadgeKind ->
           LET label == dict_get(props, "label", JsonString("Badge"))
           IN  IF IsRaise(label) THEN label
               ELSE generate_badge(label, dict_get(props, "count", JsonNumber(1)))
      [] OTHER -> GenericFallback(component_type, props)

\* lines 275-447: the two lookups of lines 286-287 stand before the try
\* statement, so what they raise leaves the function; every exception
\* raised inside the try statement is an Exception and gives None
BuildA2UIComponent(spec) ==
    LET component_type == dict_get(spec, "component_type", JsonString(""))
        props == dict_get(spec, "props", JsonObject(NoMembers))
    IN  IF IsRaise(component_type) THEN component_type
        ELSE LET built == BuildTry(component_type, props)
             IN  IF IsRaise(built) THEN None ELSE built

\* the intents an assist response can carry: objects with or without the
\* two keys, a kind with or without an adapter, prop bags of several
\* shapes, and an element that is not an object
IntentKinds == {TLDRKind, LinkCardKind, JsonString("Widget")}

IntentProps ==
    { JsonNull,
      JsonObject(NoMembers),
      JsonObject([content |-> JsonString("text")]),
      JsonObject([url |-> JsonString("https://a.example")]),
      JsonArray(<<JsonString("x")>>) }

Intents ==
    {JsonObject([component_type |-> k, props |-> p]) : k \in IntentKinds, p \in IntentProps}
    \cup {JsonObject([component_type |-> k]) : k \in IntentKinds}
    \cup {JsonObject([props |-> p]) : p \in IntentProps}
    \cup {JsonObject(NoMembers), JsonString("TLDR")}

IntentLists == UNION {[1..n -> Intents] : n \in 0..MaxIntents}

\* lines 241-266: the four intents select_components_with_llm falls back to
FallbackIntents ==
    << JsonObject([component_type |-> TLDRKind, props |-> JsonObject([content |-> JsonString("Document Summary"), max_length |-> JsonNumber(200)])]),
       JsonObject([component_type |-> KeyTakeawaysKind, props |-> JsonObject([items |-> JsonArray(<<JsonString("Key point 1"), JsonString("Key point 2")>>)])]),
       JsonObject([component_type |-> CalloutCardKind, props |-> JsonObject([type |-> JsonString("info"), title |-> JsonString("About This Document"), content |-> JsonString("Type: article")])]),
       JsonObject([component_type |-> BadgeKind, props |-> JsonObject([label |-> JsonString("Article"), count |-> JsonNumber(1)])]) >>

\* what extract_json_from_response gave for the response of an assist
\* call: an object with the keys asked for, a value that is falsy, or a
\* JSON array
ExtractedShapes == {"object", "empty", "array"}

\* lines 72-73, 76-95, 97-100: what call_llm raises
CallLlmExceptions == {"ValueError", "HTTPError", "Exception"}

\* the selection withheld when the variety report is not valid
ComponentsReturned_OnlyIfVaried(component_specs, variety) == IF variety.valid THEN component_specs ELSE <<>>

\* lines 268-272 of select_components_with_llm: the variety report is
\* printed, the intents are returned as they are
components_returned(component_specs, variety) == component_specs

\* validate_component_variety of the prompts module reads the kind of each
\* intent; what it does with an intent that is no object is not fixed
VarietyOutcomes(component_specs) ==
    {"reported"} \cup IF \E i \in 1..Len(component_specs) : component_specs[i].json # "object" THEN {"raised"} ELSE {}

IntentKindName(spec) ==
    IF spec.json = "object" /\ "component_type" \in DOMAIN spec.members /\ IsStr(spec.members.component_type) THEN spec.members.component_type.value ELSE ""

validate_component_variety(component_specs) ==
    validate_variety([i \in 1..Len(component_specs) |-> IntentKindName(component_specs[i])])

PipelineStarted ==
    [pc |-> "start", failure |-> "none", failed_call |-> "none", selected |-> <<>>, component_specs |-> <<>>, position |-> 0, emitted |-> <<>>, dropped |-> {}, variety |-> None]

PipelineInit ==
    /\ pipeline = PipelineStarted
    /\ LayoutIdle /\ ClassifyIdle /\ IdIdle /\ SessionIdle /\ VarietyIdle /\ ParseIdle /\ ExtractIdle /\ BatchIdle

PipelineRest == UNCHANGED <<layoutVars, classifyVars, sessionVars, varietyVars, parseVars, extractVars, batchVars, issued, component>>

\* lines 463-477: the run resets the counter, parses the text and is
\* suspended on the call_llm of analyze_content_with_llm
PipelineStart ==
    /\ pipeline.pc = "start"
    /\ pipeline' = [pipeline EXCEPT !.pc = "await_analyze_content"]
    /\ _id_counter' = 0
    /\ PipelineRest

\* lines 61-103 under lines 152, 186 and 237: call_llm raises, no
\* function between it and the consumer of the run has a handler
CallLlmRaises(exc) ==
    /\ pipeline.pc \in {"await_analyze_content", "await_select_layout", "await_select_components"}
    /\ pipeline' = [pipeline EXCEPT !.pc = "raised", !.failure = exc, !.failed_call = pipeline.pc]
    /\ UNCHANGED _id_counter
    /\ PipelineRest

\* lines 152-167 and 477-491: the analysis is the object extracted, or the
\* defaults when the value extracted is falsy; line 480 unpacks it as a
\* mapping
AnalyzeContentReturns(shape) ==
    /\ pipeline.pc = "await_analyze_content"
    /\ pipeline' = IF shape = "array" THEN [pipeline EXCEPT !.pc = "raised", !.failure = "TypeError"]
                   ELSE [pipeline EXCEPT !.pc = "await_select_layout"]
    /\ UNCHANGED _id_counter
    /\ PipelineRest

\* lines 186-200 and 491-494: the decision extracted, or the defaults when
\* the value extracted is falsy or holds no "layout_type"
SelectLayoutReturns(shape) ==
    /\ pipeline.pc = "await_select_layout"
    /\ pipeline' = [pipeline EXCEPT !.pc = "await_select_components"]
    /\ UNCHANGED _id_counter
    /\ PipelineRest

\* lines 237-272 and 494-504: result.get on the value extracted, the
\* fallback intents when it holds none, the variety report
SelectComponentsReturns(shape, listed, variety_outcome) ==
    /\ pipeline.pc = "await_select_components"
    /\ LET component_specs == IF shape = "empty" \/ listed = <<>> THEN FallbackIntents ELSE listed
       IN  /\ variety_outcome \in VarietyOutcomes(component_specs)
           /\ pipeline' =
                IF shape = "array" THEN [pipeline EXCEPT !.pc = "raised", !.failure = "AttributeError"]
                ELSE IF variety_outcome = "raised" THEN [pipeline EXCEPT !.pc = "raised", !.failure = "AttributeError"]
                ELSE [pipeline EXCEPT !.pc = "build", !.position = 1, !.selected = component_specs,
                                      !.variety = validate_component_variety(component_specs),
                                      !.component_specs = components_returned(component_specs, validate_component_variety(component_specs))]
    /\ UNCHANGED _id_counter
    /\ PipelineRest

\* lines 506-515: one turn of the loop; the run ends after the last intent
BuildNextIntent ==
    /\ pipeline.pc = "build"
    /\ IF pipeline.position > Len(pipeline.component_specs)
       THEN /\ pipeline' = [pipeline EXCEPT !.pc = "done"]
            /\ UNCHANGED _id_counter
       ELSE LET built == BuildA2UIComponent(pipeline.component_specs[pipeline.position])
            IN  IF IsRaise(built)
                THEN /\ pipeline' = [pipeline EXCEPT !.pc = "raised", !.failure = built.raises]
                     /\ UNCHANGED _id_counter
                ELSE IF built = None
                THEN /\ pipeline' = [pipeline EXCEPT !.position = @ + 1, !.dropped = @ \cup {pipeline.position}]
                     /\ UNCHANGED _id_counter
                ELSE /\ pipeline' = [pipeline EXCEPT !.position = @ + 1,
                                                     !.emitted = Append(@, [intent |-> pipeline.position, component |-> built])]
                     /\ _id_counter' = _id_counter + 1
    /\ PipelineRest

PipelineNext ==
    \/ PipelineStart
    \/ \E exc \in CallLlmExceptions : CallLlmRaises(exc)
    \/ \E shape \in ExtractedShapes : AnalyzeContentReturns(shape)
    \/ \E shape \in ExtractedShapes : SelectLayoutReturns(shape)
    \/ \E shape \in ExtractedShapes, listed \in IntentLists, outcome \in {"reported", "raised"} : SelectComponentsReturns(shape, listed, outcome)
    \/ BuildNextIntent

PipelineSpec == PipelineInit /\ [][PipelineNext]_vars


-----------------------------------------------------------------------------
(* Properties of the intent adapters and of an orchestrated run. *)

\* the intents of the run the loop has been through
Processed == IF pipeline.pc \in {"build", "done"} THEN 1..(pipeline.position - 1) ELSE {}

IntentAt(i) == pipeline.component_specs[i]

\* the intent names a kind, and no adapter handles it
NamesUnknownKind(spec) ==
    /\ spec.json = "object"
    /\ "component_type" \in DOMAIN spec.members
    /\ IsStr(spec.members.component_type)
    /\ spec.members.component_type.value # ""
    /\ spec.members.component_type \notin HandledKinds

PropBag(spec) == IF "props" \in DOMAIN spec.members THEN spec.members.props ELSE JsonObject(NoMembers)

EmittedFor(i) == {k \in 1..Len(pipeline.emitted) : pipeline.emitted[k].intent = i}

\* C21: an intent that names a kind no adapter handles is never dropped,
\* whatever its prop bag: the run emits for it the informational callout
\* whose title is the kind and whose text is the head of the JSON text of
\* the prop bag ("Component data" for a prop bag that is empty or null)
C21_UnknownKindFallsBack ==
    \A i \in Processed :
        NamesUnknownKind(IntentAt(i)) =>
            /\ i \notin pipeline.dropped
            /\ \E k \in EmittedFor(i) :
                 LET c == pipeline.emitted[k].component
                 IN  /\ c.type = "a2ui.CalloutCard"
                     /\ c.variant = "info"
                     /\ c.title = IntentAt(i).members.component_type.value
                     /\ c.content = IF truthy(PropBag(IntentAt(i))) THEN json_dumps_head(PropBag(IntentAt(i))) ELSE "Component data"

C21_Witness ==
    /\ pipeline.pc = "done"
    /\ \E i \in Processed :
         /\ NamesUnknownKind(IntentAt(i))
         /\ truthy(PropBag(IntentAt(i)))
         /\ \E k \in EmittedFor(i) : pipeline.emitted[k].component.type = "a2ui.CalloutCard"
    /\ \E i \in Processed :
         /\ NamesUnknownKind(IntentAt(i))
         /\ PropBag(IntentAt(i)) = JsonNull


\* C22: build_a2ui_component raises for no intent shape: an intent it
\* cannot derive a component from gives no component and is dropped, and
\* the loop of the run goes on with the intents that remain
C22_AdapterNeverRaises ==
    /\ \A i \in 1..Len(pipeline.component_specs) : ~IsRaise(BuildA2UIComponent(IntentAt(i)))
    /\ pipeline.position >= 1 => pipeline.pc # "raised"


\* C24: a failed call_llm is treated as no assist: the function that
\* awaited it returns its fallback defaults and no exception reaches the
\* consumer of the run
C24_FailedCallIsNoAssist ==
    pipeline.failed_call # "none" => pipeline.pc # "raised"


Builds(spec) == ~IsRaise(BuildA2UIComponent(spec)) /\ BuildA2UIComponent(spec) # None

\* C28: the run emits, in the order of the intents and each once, one
\* component for every intent the adapter built a component for and
\* nothing for a dropped intent; the intents built from are the ones
\* selected, whether or not the variety report is valid, and a run that
\* is done has been through all of them
C28_EmitsBuiltIntentsInOrder ==
    pipeline.pc \in {"build", "done"} =>
        /\ pipeline.component_specs = pipeline.selected
        /\ \A k \in 1..Len(pipeline.emitted) :
             /\ pipeline.emitted[k].intent \in Processed
             /\ pipeline.emitted[k].component = BuildA2UIComponent(IntentAt(pipeline.emitted[k].intent))
             /\ \A j \in 1..(k - 1) : pipeline.emitted[j].intent < pipeline.emitted[k].intent
        /\ \A i \in Processed :
             /\ Builds(IntentAt(i)) <=> EmittedFor(i) # {}
             /\ ~Builds(IntentAt(i)) <=> i \in pipeline.dropped
        /\ pipeline.pc = "done" => Processed = 1..Len(pipeline.selected)
        /\ _id_counter = Len(pipeline.emitted)

C28_Witness ==
    /\ pipeline.pc = "done"
    /\ ~pipeline.variety.valid
    /\ Len(pipeline.emitted) = 1
    /\ pipeline.dropped = {1}

C28_WitnessVaried ==
    /\ pipeline.pc = "done"
    /\ pipeline.variety.valid
    /\ Len(pipeline.emitted) = 4


-----------------------------------------------------------------------------
(***************************************************************************)
(* extract_json_from_response (src/agent/llm_orchestrator.py).  A response *)
(* text is kept as its sequence of tokens: a fence with or without the     *)
(* json tag, braces, a member key with its colon, a JSON array, the JSON   *)
(* null and a word of prose.                                               *)
(***************************************************************************)
MaxTokens == 4

\* the three backquotes of a fence, alone and with the json tag
Fence == "<fence>"
FenceJson == "<fence>json"

ResponseTokens == {Fence, FenceJson, "{", "}", "\"k\":", "[1]", "null", "Here"}

Responses == UNION {[1..n -> ResponseTokens] : n \in 0..MaxTokens}

\* json.loads: the value of a text that is one JSON value, JSONDecodeError
\* for any other text
RECURSIVE json_loads(_)
json_loads(json_str) ==
    IF json_str = <<"null">> THEN JsonNull
    ELSE IF json_str = <<"[1]">> THEN JsonArray(<<JsonNumber(1)>>)
    ELSE IF json_str = <<"{", "}">> THEN JsonObject(NoMembers)
    ELSE IF Len(json_str) >= 4 /\ json_str[1] = "{" /\ json_str[2] = "\"k\":" /\ json_str[Len(json_str)] = "}"
    THEN LET member == json_loads(SubSeq(json_str, 3, Len(json_str) - 1))
         IN  IF IsRaise(member) THEN member ELSE JsonObject([k |-> member])
    ELSE Raise("JSONDecodeError")

Positions(text, tokens) == {i \in 1..Len(text) : text[i] \in tokens}

Min(S) == CHOOSE x \in S : \A y \in S : x <= y
Max(S) == CHOOSE x \in S : \A y \in S : x >= y

\* line 117: the leftmost fence that has a fence after it, and the text
\* up to the nearest such fence; the pattern of the closing fence also
\* matches the head of a fence that carries the tag
FencedMatch(response_text) ==
    LET fences == Positions(response_text, {Fence, FenceJson})
        opening == {i \in fences : \E j \in fences : j > i}
    IN  IF opening = {} THEN None
        ELSE LET i == Min(opening)
                 j == Min({k \in fences : k > i})
             IN  [group1 |-> SubSeq(response_text, i + 1, j - 1)]

\* line 122: from the leftmost opening brace to the last closing brace
\* after it
BraceMatch(response_text) ==
    LET opening == Positions(response_text, {"{"})
        closing == Positions(response_text, {"}"})
    IN  IF opening = {} \/ closing = {} \/ Max(closing) < Min(opening) THEN None
        ELSE [group0 |-> SubSeq(response_text, Min(opening), Max(closing))]

\* lines 106-133
extract_json_from_response(response_text) ==
    LET json_str == IF FencedMatch(response_text) # None THEN FencedMatch(response_text).group1
                    ELSE IF BraceMatch(response_text) # None THEN BraceMatch(response_text).group0
                    ELSE response_text
        loaded == json_loads(json_str)
    IN  IF IsRaise(loaded) THEN JsonObject(NoMembers) ELSE loaded

ExtractInit ==
    /\ llm_response \in Responses
    /\ extracted = None
    /\ LayoutIdle /\ ClassifyIdle /\ IdIdle /\ SessionIdle /\ VarietyIdle /\ ParseIdle /\ PipelineIdle /\ BatchIdle

ExtractJson ==
    /\ extracted = None
    /\ extracted' = extract_json_from_response(llm_response)
    /\ UNCHANGED llm_response
    /\ UNCHANGED <<layoutVars, classifyVars, idVars, sessionVars, varietyVars, parseVars, pipelineVars, batchVars>>

ExtractNext == ExtractJson

ExtractSpec == ExtractInit /\ [][ExtractNext]_vars

\* C23: extract_json_from_response raises for no response text and always
\* returns a mapping, the object parsed or the empty mapping, so that the
\* .get calls and key tests of its callers cannot fail
C23_AlwaysAMapping ==
    extracted # None => extracted.json = "object"


-----------------------------------------------------------------------------
(***************************************************************************)
(* parse_markdown (src/agent/content_analyzer.py): the title and the link  *)
(* collection.  The text is a sequence of characters, its white space      *)
(* being the blank and the line feed; the links of a text are kept as the  *)
(* sequence of their occurrences.                                          *)
(***************************************************************************)
MaxContentLines == 3
MaxLinks == 3

TitleLimit == 100

LF == "\n"

RECURSIVE JoinLines(_)
JoinLines(lines) ==
    IF lines = <<>> THEN <<>>
    ELSE IF Len(lines) = 1 THEN lines[1]
    ELSE lines[1] \o <<LF>> \o JoinLines(Tail(lines))

\* the last position of the line that position p stands in
LineEnd(text, p) ==
    IF \E k \in p..Len(text) : text[k] = LF THEN Min({k \in p..Len(text) : text[k] = LF}) - 1 ELSE Len(text)

\* content.split('\n')[0]
FirstLine(text) == IF text = <<>> THEN <<>> ELSE SubSeq(text, 1, LineEnd(text, 1))

\* line 129, the pattern ^#\s+(.+)$ tried at position p, where a line
\* begins with '#': the white space after it, line feeds included, is
\* taken as far as it goes and group 1 is the rest of the line reached;
\* when white space runs to the end of the text the pattern gives back
\* as little of it as lets group 1 match blanks at the end of a line
HeaderGroupAt(text, p) ==
    LET white == {e \in (p + 1)..Len(text) : \A k \in (p + 1)..e : text[k] \in {" ", LF}}
    IN  IF white = {} THEN None
        ELSE IF Max(white) < Len(text)
        THEN [group1 |-> SubSeq(text, Max(white) + 1, LineEnd(text, Max(white) + 1))]
        ELSE LET starts == {k \in (p + 2)..Len(text) : text[k] = " "}
             IN  IF starts = {} THEN None
                 ELSE [group1 |-> SubSeq(text, Max(starts), LineEnd(text, Max(starts)))]

\* re.search(r'^#\s+(.+)$', content, re.MULTILINE): the leftmost match
title_match(text) ==
    LET starts == {p \in 1..Len(text) : text[p] = "#" /\ (p = 1 \/ text[p - 1] = LF) /\ HeaderGroupAt(text, p) # None}
    IN  IF starts = {} THEN None ELSE HeaderGroupAt(text, Min(starts))

\* lines 128-135
TitleOf(text) ==
    IF title_match(text) # None THEN Str(strip(title_match(text).group1))
    ELSE LET first_line == IF text # <<>> THEN strip(FirstLine(text)) ELSE <<>>
         IN  IF first_line # <<>> THEN Str(Take(first_line, TitleLimit)) ELSE "Untitled Document"

\* the links of a text in the order they stand in it: a markdown link
\* [text](url) or a bare URL; a URL that begins with a scheme or www. is
\* one URL_REGEX finds, inside a markdown link as well
AbsoluteUrls == {"https://a.example", "https://b.example"}
RelativeUrls == {"/docs"}

LinkOccurrences ==
    [form : {"markdown"}, url : AbsoluteUrls \cup RelativeUrls] \cup [form : {"plain"}, url : AbsoluteUrls]

\* MARKDOWN_LINK_REGEX.findall(content), the url group of each match
markdown_links(links) == SelectSeq(links, LAMBDA occurrence : occurrence.form = "markdown")

\* URL_REGEX.findall(content)
plain_urls(links) == SelectSeq(links, LAMBDA occurrence : occurrence.url \in AbsoluteUrls)

\* lines 149-152: a URL is appended unless the list holds it already
RECURSIVE AppendNew(_, _)
AppendNew(all_links, urls) ==
    IF urls = <<>> THEN all_links
    ELSE AppendNew(IF urls[1] \in Elements(all_links) THEN all_links ELSE Append(all_links, urls[1]), Tail(urls))

\* lines 142-152
AllLinks(links) ==
    AppendNew([i \in 1..Len(markdown_links(links)) |-> markdown_links(links)[i].url],
              [i \in 1..Len(plain_urls(links)) |-> plain_urls(links)[i].url])

\* the lines of the texts parsed: empty, blank, short, padded, longer
\* than the title limit, headers of level 1 and 2, a lone '#'
ContentLines ==
    { <<>>, <<" ", " ">>, <<"H", "i">>, <<" ", "H", "i", " ">>, [i \in 1..(TitleLimit + 1) |-> "x"],
      <<"#", " ", "T">>, <<"#", "#", " ", "S">>, <<"#">> }

Contents ==
    {[lines |-> lines, links |-> <<>>] : lines \in UNION {[1..n -> ContentLines] : n \in 1..MaxContentLines}}
    \cup {[lines |-> <<<<"H", "i">>>>, links |-> links] : links \in UNION {[1..n -> LinkOccurrences] : n \in 1..MaxLinks}}

ParseInit ==
    /\ parse_content \in Contents
    /\ parse_result = None
    /\ LayoutIdle /\ ClassifyIdle /\ IdIdle /\ SessionIdle /\ VarietyIdle /\ ExtractIdle /\ PipelineIdle /\ BatchIdle

\* lines 98-152 of parse_markdown
ParseMarkdown ==
    /\ parse_result = None
    /\ parse_result' = [title |-> TitleOf(JoinLines(parse_content.lines)), all_links |-> AllLinks(parse_content.links)]
    /\ UNCHANGED parse_content
    /\ UNCHANGED <<layoutVars, classifyVars, idVars, sessionVars, varietyVars, extractVars, pipelineVars, batchVars>>

ParseNext == ParseMarkdown

ParseSpec == ParseInit /\ [][ParseNext]_vars

IsBlankLine(line) == strip(line) = <<>>

\* a line that is a header of level 1: '#', white space, text
IsH1Line(line) == Len(line) >= 3 /\ line[1] = "#" /\ line[2] = " " /\ strip(Tail(line)) # <<>>

NonBlankLines(lines) == {i \in 1..Len(lines) : ~IsBlankLine(lines[i])}

\* C25: for a text with no header of level 1 the title is the first line
\* that is not empty, stripped and cut to 100 characters, and 'Untitled
\* Document' only when the text has no such line
C25_TitleIsFirstNonEmptyLine ==
    (parse_result # None /\ parse_content.links = <<>> /\ \A i \in 1..Len(parse_content.lines) : ~IsH1Line(parse_content.lines[i])) =>
        LET lines == parse_content.lines
        IN  parse_result.title = IF NonBlankLines(lines) = {} THEN "Untitled Document"
                                 ELSE Str(Take(strip(lines[Min(NonBlankLines(lines))]), TitleLimit))

\* C26: the collected links hold no URL twice
C26_NoUrlTwice ==
    parse_result # None =>
        \A i, j \in 1..Len(parse_result.all_links) : i # j => parse_result.all_links[i] # parse_result.all_links[j]


-----------------------------------------------------------------------------
(* Further properties of select_layout and of the classifier. *)

\* the assist tier of the call was entered
AssistEntered == agent_runs >= 1 \/ assist_outcome # "not_invoked"

\* C27: one call of select_layout runs the agent at most once, and only
\* when an agent was supplied, the rule pass gave no candidate of
\* confidence >= 0.8 and the type mapping has confidence < 0.75; when
\* agent.run returned and a decision could be parsed from its response,
\* select_layout returns that decision
C27_AssistOnceAndOnlyWhenNeeded ==
    /\ agent_runs <= 1
    /\ AssistEntered =>
         /\ agent = "agent"
         /\ LET rule == _apply_rule_based_selection(analysis)
            IN  rule = None \/ ~FloatGE(rule.confidence, Num(80))
         /\ FloatLT(_get_layout_from_document_type(analysis).confidence, Num(75))
    /\ (Finished /\ assist_outcome = "returned" /\ ~IsRaise(ParseResponse(response))) =>
         /\ pc = "returned"
         /\ agent_runs = 1
         /\ result = ParseResponse(response)

\* an agent, no rule firing, a type the table does not hold, and a response
\* naming a layout: the decision returned is the one parsed from it, not
\* the type mapping's
C27_Witness ==
    /\ pc = "returned"
    /\ agent_runs = 1
    /\ assist_outcome = "returned"
    /\ ~IsRaise(ParseResponse(response))
    /\ result = ParseResponse(response)
    /\ result.layout_type = "data_layout"
    /\ result # _get_layout_from_document_type(analysis)


-----------------------------------------------------------------------------
(***************************************************************************)
(* generate_component with its props argument and generate_components_     *)
(* batch (src/agent/a2ui_generator.py), and what they do to the counter.   *)
(***************************************************************************)
MaxBatch == 2

\* the props argument: a dict, or a value that is none (None)
PropsValues == {"dict", "None"}

\* the props field of the model, dict[str, Any]
ValidatedComponent(type, id, props) ==
    IF props # "dict" THEN Raise("ValidationError") ELSE A2UIComponent(type, id)

\* generate_id called before the registry is looked at
CallsGenerateId_BeforeRegistryCheck(component_type, component_id) == component_id = Absent

\* lines 256-264: whether the call gets to generate_id
CallsGenerateId(component_type, component_id) ==
    Str(component_type) \in VALID_COMPONENT_TYPES /\ component_id = Absent

\* lines 256-274, counter being _id_counter when line 267 is reached
generate_component_with_props(component_type, props, component_id, counter) ==
    IF Str(component_type) \notin VALID_COMPONENT_TYPES THEN Raise("ValueError")
    ELSE ValidatedComponent(component_type,
                            IF component_id = Absent
                            THEN generate_id(component_type, Absent, counter, CHOOSE token \in UuidHexPrefixes : TRUE)
                            ELSE component_id,
                            props)

\* lines 395-399: the loop from specification i on, counter being
\* _id_counter and built the list so far; an exception leaves the function
\* and the list with it
RECURSIVE BatchLoop(_, _, _, _)
BatchLoop(component_specs, i, counter, built) ==
    IF i > Len(component_specs) THEN [outcome |-> [components |-> built], counter |-> counter, failed_at |-> 0]
    ELSE LET spec == component_specs[i]
             after == IF CallsGenerateId(spec.component_type, Absent) THEN counter + 1 ELSE counter
             made == generate_component_with_props(spec.component_type, spec.props, Absent, after)
         IN  IF IsRaise(made) THEN [outcome |-> made, counter |-> after, failed_at |-> i]
             ELSE BatchLoop(component_specs, i + 1, after, Append(built, made))

generate_components_batch(component_specs, counter) == BatchLoop(component_specs, 1, counter, <<>>)

\* a kind the registry holds and one it does not
BatchKinds == {StatCardType, WidgetType}

BatchSpecLists ==
    UNION {[1..n -> [component_type : BatchKinds, props : PropsValues]] : n \in 0..MaxBatch}

\* what the call before this one was
Previous ==
    IF batch.call = "generate_components_batch"
    THEN [call |-> batch.call, raised |-> IF IsRaise(batch.outcome) THEN batch.outcome.raises ELSE "none", failed_at |-> batch.failed_at]
    ELSE [call |-> batch.call]

BatchInit ==
    /\ batch = [call |-> "none"]
    /\ _id_counter = 0
    /\ issued = <<>>
    /\ component = None
    /\ LayoutIdle /\ ClassifyIdle /\ SessionIdle /\ VarietyIdle /\ ParseIdle /\ ExtractIdle /\ PipelineIdle

BatchRest == UNCHANGED <<layoutVars, classifyVars, sessionVars, varietyVars, parseVars, extractVars, pipelineVars, issued, component>>

\* one call of generate_component
CallGenerateComponent ==
    /\ _id_counter < MaxCalls
    /\ \E component_type \in BatchKinds, component_id \in ComponentIds, props \in PropsValues :
          LET after == IF CallsGenerateId(component_type, component_id) THEN _id_counter + 1 ELSE _id_counter
          IN  /\ batch' = [call |-> "generate_component",
                           component_type |-> Str(component_type),
                           component_id |-> IF component_id = Absent THEN "None" ELSE Str(component_id),
                           props |-> props,
                           counter_before |-> _id_counter,
                           outcome |-> generate_component_with_props(component_type, props, component_id, after),
                           previous |-> Previous]
              /\ _id_counter' = after
    /\ BatchRest

\* one call of generate_components_batch
CallGenerateComponentsBatch ==
    /\ _id_counter < MaxCalls
    /\ \E component_specs \in BatchSpecLists :
          LET run == generate_components_batch(component_specs, _id_counter)
          IN  /\ batch' = [call |-> "generate_components_batch",
                           component_specs |-> [i \in 1..Len(component_specs) |-> [component_type |-> Str(component_specs[i].component_type), props |-> component_specs[i].props]],
                           counter_before |-> _id_counter,
                           outcome |-> run.outcome,
                           failed_at |-> run.failed_at,
                           previous |-> Previous]
              /\ _id_counter' = run.counter
    /\ BatchRest

\* reset_id_counter between calls
BatchReset ==
    /\ _id_counter > 0
    /\ _id_counter' = 0
    /\ batch' = [call |-> "reset_id_counter"]
    /\ BatchRest

BatchNext == CallGenerateComponent \/ CallGenerateComponentsBatch \/ BatchReset

BatchSpec == BatchInit /\ [][BatchNext]_vars

Registered(component_type) == component_type \in VALID_COMPONENT_TYPES

\* the first specification of the batch that generate_component rejects
FirstInvalid == Min({i \in 1..Len(batch.component_specs) : ~Registered(batch.component_specs[i].component_type) \/ batch.component_specs[i].props # "dict"})

BatchFailed == batch.call = "generate_components_batch" /\ IsRaise(batch.outcome)

\* C29 as stated: a batch that fails on an invalid specification leaves
\* the counter advanced by exactly the number of specifications before the
\* first invalid one
C29_BatchCounterForEveryInvalidSpec ==
    BatchFailed => _id_counter = batch.counter_before + FirstInvalid - 1

\* C29: a generate_component call rejected for its kind, or given an id by
\* the caller, leaves the counter as it was; a batch that fails on a kind
\* the registry does not hold returns no list and leaves the counter
\* advanced by the number of specifications before it, one that fails on
\* props that are no mapping by one more; an id generated next carries the
\* counter after that
C29_CounterFrame ==
    /\ (batch.call = "generate_component" /\ (~Registered(batch.component_type) \/ batch.component_id # "None")) =>
          _id_counter = batch.counter_before
    /\ batch.call = "generate_components_batch" =>
          IF \E i \in 1..Len(batch.component_specs) : ~Registered(batch.component_specs[i].component_type) \/ batch.component_specs[i].props # "dict"
          THEN /\ IsRaise(batch.outcome)
               /\ batch.failed_at = FirstInvalid
               /\ IF ~Registered(batch.component_specs[FirstInvalid].component_type)
                  THEN batch.outcome = Raise("ValueError") /\ _id_counter = batch.counter_before + FirstInvalid - 1
                  ELSE batch.outcome = Raise("ValidationError") /\ _id_counter = batch.counter_before + FirstInvalid
          ELSE /\ ~IsRaise(batch.outcome)
               /\ Len(batch.outcome.components) = Len(batch.component_specs)
               /\ _id_counter = batch.counter_before + Len(batch.component_specs)
    /\ (batch.call = "generate_component" /\ Registered(batch.component_type) /\ batch.component_id = "None" /\ batch.props = "dict") =>
          /\ _id_counter = batch.counter_before + 1
          /\ Str(batch.outcome.id) = KebabOfKind(batch.component_type) \o "-" \o ToString(batch.counter_before + 1)

\* a batch failed on its second specification, of a kind the registry does
\* not hold; the id generated next is the second of the session
C29_Witness ==
    /\ batch.call = "generate_component"
    /\ batch.previous = [call |-> "generate_components_batch", raised |-> "ValueError", failed_at |-> 2]
    /\ batch.counter_before = 1
    /\ batch.component_id = "None"
    /\ ~IsRaise(batch.outcome)
    /\ Str(batch.outcome.id) = "stat-card-2"


\* the labels the heuristic can give
HeuristicLabels == {"tutorial", "research", "technical_doc", "guide", "notes", "article"}

\* the layout the type-mapping pass selects for a document of the label
TypeMappedLayout(label) == _get_layout_from_document_type([document_type |-> label]).layout_type

\* C30: the heuristic gives one of the six labels tutorial, research,
\* technical_doc, guide, notes, article and never 'overview'; so an
\* analyze_content call without an agent never ends with 'overview', and
\* for a label the heuristic decided the type-mapping pass never selects
\* media_layout
C30_HeuristicNeverOverview ==
    /\ HeuristicDecided =>
         /\ document_type = _classify_heuristic(markdown, parsed_markdown)
         /\ document_type \in HeuristicLabels
         /\ document_type # "overview"
         /\ TypeMappedLayout(document_type) # "media_layout"
    /\ (analyze_pc = "returned" /\ classifier = "None") =>
         /\ HeuristicDecided
         /\ document_type # "overview"

\* a text no rule matches, classified without an agent: 'article', which
\* the table maps to news_layout; 'overview' is the one label the table
\* maps to media_layout
C30_Witness ==
    /\ analyze_pc = "returned"
    /\ classifier = "None"
    /\ document_type = "article"
    /\ TypeMappedLayout(document_type) = "news_layout"
    /\ TypeMappedLayout("overview") = "media_layout"

====
